---- MODULE Spec2Model ----
(***************************************************************************)
(* Nu SkyNet: the streaming relay (app/api/chat/stream/route.ts), the      *)
(* per-route conversation stores and the clear-history route, as a state   *)
(* machine.                                                                *)
(*                                                                         *)
(* Text is a sequence of tokens.  The upstream body is a sequence of byte  *)
(* tokens: each token stands for the bytes of one fixed piece of text      *)
(* ("data: ", the opening of a delta record, ...), except the two bytes of *)
(* the character U+00E9, which are separate tokens so that a network chunk *)
(* can end between them.  Chunks are cut at token boundaries.              *)
(***************************************************************************)
EXTENDS Integers, Sequences, FiniteSets, TLC

VARIABLES
    convStream,   \* conversations of app/api/chat/stream/route.ts
    convChat,     \* conversations of app/api/chat/route.ts
    convClear,    \* conversations of app/api/clear-history/route.ts
    apiKey,       \* process.env.CLAUDE_API_KEY is set
    reqs,         \* the streaming requests, by request number
    cleared,      \* the sessions cleared and not appended to since
    logStream,    \* per session, every message passed to the stream route's
                  \* addToConversationHistory, in call order
    chatReqs,     \* the blocking requests, by request number
    logChat,      \* as logStream, for app/api/chat/route.ts
    audit,        \* CONFIG.ENABLE_AUDIT and the files of CONFIG.AUDIT_DIR
    clearAck,     \* the last response of the clear-history route
    call          \* the function applied on its own, its argument and result

chatVars == <<chatReqs, logChat, audit>>

vars == <<convStream, convChat, convClear, apiKey, reqs, cleared, logStream,
          chatVars, clearAck, call>>

---------------------------------------------------------------------------
(* Bounds *)

\* lines (each ended by a newline) of one upstream body, in SpecRelay
MaxLines == 2
\* streaming requests of one behaviour of Spec and of SpecStore
MaxReqs == 2
\* messages of a history given to formatConversationForClaude, in SpecShape
MaxHistory == 3
\* fragments of one argument of rewriteString, in SpecRewrite
MaxPieces == 2
\* elements of an array and keys of an object given to deepRewrite, in SpecDeep
MaxWidth == 2

---------------------------------------------------------------------------
(* Tokens *)

NL      == "\\n"
SP      == " "
DataPfx == "data: "
DoneTok == "[DONE]"
Open    == "{\"delta\":{\"text\":\""
Close   == "\"}}"
Ping    == "{\"type\":\"ping\"}"
EventLn == "event: content_block_delta"
Digit   == "7"
Prose   == "Hi there!"
ByteC3  == "0xC3"
ByteA9  == "0xA9"
EAcute  == "U+00E9"
Replacement == "U+FFFD"
CtxPfx  == "(Context from earlier conversation, no response needed): "
Hello   == "Hello"
\* a text that names a forbidden word and is itself JSON (a string literal),
\* and the same text with the brand name in its place
QuotedName == "\"Claude\""
QuotedBrand == "\"Nu SkyNet\""

\* the characters a text fragment of a delta record is made of
TextChars == {Digit, Prose, EAcute, Replacement, QuotedName}

Whitespace == {SP, NL}

---------------------------------------------------------------------------
(* Strings *)

\* Buffer.toString(): UTF-8 decoding of one chunk on its own.  A lead byte
\* without its continuation byte, and a continuation byte without its lead
\* byte, each decode to U+FFFD.
RECURSIVE Utf8Decode(_)
Utf8Decode(b) ==
    IF b = <<>> THEN <<>>
    ELSE IF b[1] = ByteC3
         THEN IF Len(b) >= 2 /\ b[2] = ByteA9
              THEN <<EAcute>> \o Utf8Decode(SubSeq(b, 3, Len(b)))
              ELSE <<Replacement>> \o Utf8Decode(Tail(b))
    ELSE IF b[1] = ByteA9
         THEN <<Replacement>> \o Utf8Decode(Tail(b))
    ELSE <<b[1]>> \o Utf8Decode(Tail(b))

\* String.prototype.split('\n')
RECURSIVE SplitLines(_)
SplitLines(s) ==
    IF \A i \in 1..Len(s) : s[i] # NL THEN <<s>>
    ELSE LET i == CHOOSE k \in 1..Len(s) :
                      s[k] = NL /\ \A j \in 1..(k - 1) : s[j] # NL
         IN <<SubSeq(s, 1, i - 1)>> \o SplitLines(SubSeq(s, i + 1, Len(s)))

\* String.prototype.trim()
RECURSIVE Trim(_)
Trim(s) ==
    IF s = <<>> THEN <<>>
    ELSE IF s[1] \in Whitespace THEN Trim(Tail(s))
    ELSE IF s[Len(s)] \in Whitespace THEN Trim(SubSeq(s, 1, Len(s) - 1))
    ELSE s

\* line.startsWith('data: ')
StartsWithData(line) == Len(line) >= 1 /\ line[1] = DataPfx

\* JSON.parse(s) of a delta record: {"delta":{"text":"<text>"}}
IsDeltaRecord(s) ==
    /\ Len(s) >= 2
    /\ s[1] = Open
    /\ s[Len(s)] = Close
    /\ \A i \in 2..(Len(s) - 1) : s[i] \in TextChars

\* JSON.parse(s) of a string literal
IsJsonString(s) == s = <<QuotedName>>

\* JSON.parse(s) of a number
IsJsonNumber(s) == Len(s) >= 1 /\ \A i \in 1..Len(s) : s[i] = Digit

\* JSON.parse(s) returns (does not throw SyntaxError)
JsonParses(s) ==
    IsDeltaRecord(s) \/ IsJsonNumber(s) \/ IsJsonString(s) \/ s = <<Ping>>

\* data.delta?.text || '' for data = JSON.parse(s)
DeltaText(s) == IF IsDeltaRecord(s) THEN SubSeq(s, 2, Len(s) - 1) ELSE <<>>

---------------------------------------------------------------------------
(* Conversation stores: a Map is a function whose domain is its key set *)

HistoryCap == 20

EmptyMap == [k \in {} |-> <<>>]

MapHas(m, k) == k \in DOMAIN m

MapSet(m, k, v) == [x \in (DOMAIN m) \cup {k} |-> IF x = k THEN v ELSE m[x]]

MapDelete(m, k) == [x \in (DOMAIN m) \ {k} |-> m[x]]

TextBlock(t) == [type |-> "text", text |-> t]

Message(role, blocks) == [role |-> role, content |-> blocks]

\* history.slice(-n)
LastN(h, n) == IF Len(h) > n THEN SubSeq(h, Len(h) - n + 1, Len(h)) ELSE h

getConversationHistory(m, sessionId) ==
    IF MapHas(m, sessionId) THEN m[sessionId] ELSE <<>>

initializeConversation(m, sessionId) ==
    IF MapHas(m, sessionId) THEN m ELSE MapSet(m, sessionId, <<>>)

\* content is [isArray |-> TRUE, blocks |-> ...] or [isArray |-> FALSE, text |-> ...]
FormattedContent(content) ==
    IF content.isArray THEN content.blocks ELSE <<TextBlock(content.text)>>

\* slice(0, 20) in place of slice(-20)
Truncate_KeepFirst(h) == IF Len(h) > HistoryCap THEN SubSeq(h, 1, HistoryCap) ELSE h

\* if (history.length > 20) conversations.set(sessionId, history.slice(-20))
Truncate(h) == IF Len(h) > HistoryCap THEN LastN(h, HistoryCap) ELSE h

\* addToConversationHistory, were the message pushed to every history
addToConversationHistory_Everywhere(m, sessionId, role, content) ==
    LET m1 == initializeConversation(m, sessionId)
    IN [sid \in DOMAIN m1 |->
           Truncate(Append(m1[sid], Message(role, FormattedContent(content))))]

addToConversationHistory(m, sessionId, role, content) ==
    LET m1 == initializeConversation(m, sessionId)
        pushed == Append(m1[sessionId], Message(role, FormattedContent(content)))
    IN MapSet(m1, sessionId, Truncate(pushed))

StrContent(t) == [isArray |-> FALSE, text |-> t]

\* a content, or a message of a request body, that is an array
ArrayContent(blocks) == [isArray |-> TRUE, blocks |-> blocks]

\* the message of a request body without one (undefined, null, "")
NoMessage == StrContent(<<>>)

\* the record of one call of addToConversationHistory
Recorded(log, sessionId, role, content) ==
    MapSet(log, sessionId,
           Append(getConversationHistory(log, sessionId),
                  Message(role, FormattedContent(content))))

\* ShapeMessage, were the last message rewrapped like the earlier ones
ShapeMessage_LastToo(history, i) ==
    LET msg == history[i] IN
    IF msg.role = "user"
    THEN Message("user", <<TextBlock(<<CtxPfx>> \o msg.content[1].text)>>)
    ELSE msg

\* the callback of history.map
ShapeMessage(history, i) ==
    LET msg == history[i] IN
    IF i = Len(history) THEN msg
    ELSE IF msg.role = "user"
         THEN Message("user", <<TextBlock(<<CtxPfx>> \o msg.content[1].text)>>)
         ELSE msg

\* msg.content[0].text throws a TypeError: an earlier user message whose
\* content has no first element
ShapingThrows(history) ==
    \E i \in 1..(Len(history) - 1) :
        history[i].role = "user" /\ history[i].content = <<>>

\* defined unless ShapingThrows(history)
formatConversationForClaude(history) ==
    [i \in 1..Len(history) |-> ShapeMessage(history, i)]

\* ReadHistory, had the append of another request for the session come
\* between the append of the request and its read
ReadHistory_Interleaved(m, sessionId) ==
    getConversationHistory(
        addToConversationHistory(m, sessionId, "user", StrContent(<<CtxPfx>>)), sessionId)

\* getConversationHistory as POST calls it, right after its append: there is
\* no await between the two
ReadHistory(m, sessionId) == getConversationHistory(m, sessionId)

\* AfterShaping, were the shaped messages written over the stored history
AfterShaping_InPlace(m, sessionId, shaped) == MapSet(m, sessionId, shaped)

\* the Map once formatConversationForClaude has returned shaped for the
\* history of the session: history.map builds a new array of new objects
AfterShaping(m, sessionId, shaped) == m

\* sessionId || 'default-session'
CurrentSessionId(sessionId) ==
    IF sessionId = "" THEN "default-session" ELSE sessionId

---------------------------------------------------------------------------
(* The relay: the handlers of one streaming response.                      *)
(* A handler state st is [q |-> the request, conv |-> the stream store,     *)
(* log |-> the calls of addToConversationHistory].                         *)

DeltaFrame(t) == [type |-> "delta", delta |-> t]
DoneFrame     == [type |-> "done"]
ErrorFrame(m) == [type |-> "error", error |-> m]

ParseFailed == "Failed to parse complete response"
StreamError == "Stream error occurred"

\* controller.enqueue / controller.close throw a TypeError unless the stream
\* is readable and not yet closed
CanEnqueue(q) == q.ctrl = "readable"

Log(q, tag) == [q EXCEPT !.logged = @ \cup {tag}]

\* the 'data: [DONE]' branch; the handler returns after it
DoneBranch(st) ==
    LET q0 == Log(st.q, "completed") IN
    IF JsonParses(q0.fullResponse)
    THEN LET content == StrContent(q0.fullResponse)
             conv1 == addToConversationHistory(st.conv, q0.sid, "assistant", content)
             log1  == Recorded(st.log, q0.sid, "assistant", content)
         IN IF CanEnqueue(q0)
            THEN [q    |-> [q0 EXCEPT !.out = Append(@, DoneFrame),
                                      !.ctrl = "closed"],
                  conv |-> conv1,
                  log  |-> log1]
            ELSE \* enqueue throws inside try, then again inside catch
                 [q    |-> [Log(q0, "parseError") EXCEPT !.uncaught = TRUE],
                  conv |-> conv1,
                  log  |-> log1]
    ELSE IF CanEnqueue(q0)
         THEN [st EXCEPT !.q = [Log(q0, "parseError") EXCEPT
                                   !.out = Append(@, ErrorFrame(ParseFailed)),
                                   !.ctrl = "closed"]]
         ELSE [st EXCEPT !.q = [Log(q0, "parseError") EXCEPT !.uncaught = TRUE]]

\* OnLineError, were a line that fails to parse fatal to the stream
OnLineError_Fatal(q) ==
    IF CanEnqueue(q)
    THEN [Log(q, "lineError") EXCEPT !.out = Append(@, ErrorFrame(ParseFailed)),
                                     !.ctrl = "closed"]
    ELSE Log(q, "lineError")

\* a line that fails to parse, or whose enqueue throws: logged, no more
OnLineError(q) == Log(q, "lineError")

\* Forward, were the text of a record passed through the rewrite of the
\* forbidden words before it is accumulated and enqueued
Forward_Rewritten(delta) ==
    [i \in DOMAIN delta |-> IF delta[i] = QuotedName THEN QuotedBrand ELSE delta[i]]

\* what the handlers accumulate and enqueue of data.delta.text: the text
\* itself ("Send the raw delta to client")
Forward(delta) == delta

\* the "data: " branch of one line
DataBranch(q, line) ==
    LET jsonStr == Trim(Tail(line)) IN
    IF jsonStr = <<>> THEN q
    ELSE IF ~JsonParses(jsonStr) THEN OnLineError(q)
    ELSE LET delta == DeltaText(jsonStr) IN
         IF delta = <<>> THEN q
         ELSE LET q1 == [q EXCEPT !.fullResponse = @ \o Forward(delta)] IN
              IF CanEnqueue(q1)
              THEN [q1 EXCEPT !.out = Append(@, DeltaFrame(Forward(delta)))]
              ELSE OnLineError(q1)

SentinelLine == <<DataPfx, DoneTok>>

\* for (const line of lines) { ... }
RECURSIVE ProcessLines(_, _)
ProcessLines(lines, st) ==
    IF lines = <<>> THEN st
    ELSE LET line == Head(lines) IN
         IF Trim(line) = <<>> THEN ProcessLines(Tail(lines), st)
         ELSE IF line = SentinelLine THEN DoneBranch(st)
         ELSE IF StartsWithData(line)
              THEN ProcessLines(Tail(lines),
                                [st EXCEPT !.q = DataBranch(st.q, line)])
              ELSE ProcessLines(Tail(lines), st)

\* the data handler, after chunk.toString()
OnText(st, str) ==
    LET text  == st.q.buffer \o str
        parts == SplitLines(text)
        lines == SubSeq(parts, 1, Len(parts) - 1)
        rest  == parts[Len(parts)]
    IN ProcessLines(lines, [st EXCEPT !.q.buffer = rest,
                                      !.q.received = @ \o str])

\* response.data.on('data', chunk => ...)
OnData(st, chunk) == OnText(st, Utf8Decode(chunk))

\* controller.close() at the end of the end and error handlers
CloseController(q) ==
    IF CanEnqueue(q) THEN [q EXCEPT !.ctrl = "closed"]
    ELSE [q EXCEPT !.uncaught = TRUE]

\* response.data.on('end', ...)
OnEnd(st) ==
    LET q0   == Log(st.q, "ended")
        left == Trim(q0.buffer)
        q1   == IF left = <<>> THEN q0
                ELSE IF ~JsonParses(left) THEN Log(q0, "finalError")
                ELSE LET delta == DeltaText(left) IN
                     IF delta = <<>> THEN q0
                     ELSE LET q2 == [q0 EXCEPT !.fullResponse = @ \o Forward(delta)] IN
                          IF CanEnqueue(q2)
                          THEN [q2 EXCEPT !.out = Append(@, DeltaFrame(Forward(delta)))]
                          ELSE Log(q2, "finalError")
    IN [st EXCEPT !.q = CloseController(q1)]

\* OnError, were the controller left open after the error frame
OnError_NoClose(st) ==
    LET q0 == Log(st.q, "streamError") IN
    IF CanEnqueue(q0)
    THEN [st EXCEPT !.q = [q0 EXCEPT !.out = Append(@, ErrorFrame(StreamError))]]
    ELSE [st EXCEPT !.q = [q0 EXCEPT !.uncaught = TRUE]]

\* OnError, were the text accumulated so far stored as the assistant turn
OnError_Persist(st) ==
    LET q0 == Log(st.q, "streamError")
        content == StrContent(q0.fullResponse)
        conv1 == addToConversationHistory(st.conv, q0.sid, "assistant", content)
        log1  == Recorded(st.log, q0.sid, "assistant", content)
    IN IF CanEnqueue(q0)
       THEN [q    |-> [q0 EXCEPT !.out = Append(@, ErrorFrame(StreamError)),
                                 !.ctrl = "closed"],
             conv |-> conv1,
             log  |-> log1]
       ELSE [q |-> [q0 EXCEPT !.uncaught = TRUE], conv |-> conv1, log |-> log1]

\* response.data.on('error', ...)
OnError(st) ==
    LET q0 == Log(st.q, "streamError") IN
    IF CanEnqueue(q0)
    THEN [st EXCEPT !.q = [q0 EXCEPT !.out = Append(@, ErrorFrame(StreamError)),
                                     !.ctrl = "closed"]]
    ELSE [st EXCEPT !.q = [q0 EXCEPT !.uncaught = TRUE]]

---------------------------------------------------------------------------
(* Upstream bodies *)

DeltaLine(t) == <<DataPfx, Open>> \o t \o <<Close>>

\* the lines an upstream body is made of (without their newline)
Catalog ==
    { DeltaLine(<<Digit>>),              \* a fragment that is itself JSON
      DeltaLine(<<Prose>>),              \* a fragment of plain prose
      DeltaLine(<<ByteC3, ByteA9>>),     \* a fragment with a two-byte character
      <<DataPfx, Ping>>,                 \* a record without delta.text
      SentinelLine,
      <<DataPfx, Open>>,                 \* a record cut short: does not parse
      <<>>,                              \* the blank line between events
      <<EventLn>> }                      \* an "event:" line

\* what may follow the last newline of a body
Tails ==
    { <<>>,
      DeltaLine(<<Digit>>),              \* a data record without its newline
      <<Open, Digit, Close>> }           \* a bare record without its newline

RECURSIVE Join(_)
Join(ls) == IF ls = <<>> THEN <<>> ELSE Head(ls) \o <<NL>> \o Join(Tail(ls))

LineSeqs(n) == UNION { [1..k -> Catalog] : k \in 0..n }

RelayWires == { Join(ls) \o t : ls \in LineSeqs(MaxLines), t \in Tails }

---------------------------------------------------------------------------
(* Requests *)

\* what axios.post rejects with: error.response (its status) if the upstream
\* answered with a status outside 2xx, error.code otherwise
AxiosError(hasResponse, status, code) ==
    [hasResponse |-> hasResponse, status |-> status, code |-> code]

\* nothing was thrown
NoError == AxiosError(FALSE, 0, "none")

\* the upstream answered with this status
Rejected(status) == AxiosError(TRUE, status, "ERR_BAD_RESPONSE")

\* the timeout of the call elapsed
TimedOut == AxiosError(FALSE, 0, "ECONNABORTED")

\* the connection to the upstream failed
Unreachable == AxiosError(FALSE, 0, "ECONNREFUSED")

\* an error thrown by the code of the route itself: no response, no code
TypeError == AxiosError(FALSE, 0, "")

\* rate limited, overloaded, timed out, unreachable
AxiosErrors == {Rejected(429), Rejected(529), TimedOut, Unreachable}

NoReq ==
    [ phase        |-> "none",     \* none, rejected, awaiting, failed, streaming
      sid          |-> "",         \* currentSessionId
      message      |-> NoMessage,  \* the message of the request body
      status       |-> 0,          \* the HTTP status of the response
      error        |-> "",         \* the error of the response body
      failure      |-> NoError,    \* what axios.post rejected with
      posts        |-> 0,          \* the calls of axios.post
      sent         |-> <<>>,       \* nuSkynetRequest.messages
      afterClear   |-> FALSE,      \* submitted right after a clear of its session
      wire         |-> <<>>,       \* the upstream body
      pos          |-> 0,          \* how much of it has been delivered
      up           |-> "none",     \* the upstream: none, open, ended, errored
      received     |-> <<>>,       \* the chunks as decoded, one after the other
      buffer       |-> <<>>,
      fullResponse |-> <<>>,
      out          |-> <<>>,       \* the frames enqueued on the controller
      ctrl         |-> "none",     \* the controller: none, readable, closed, cancelled
      logged       |-> {},         \* what the handlers wrote to the console
      uncaught     |-> FALSE,      \* a handler threw out of its listener
      aborted      |-> FALSE ]     \* the consumer cancelled the response

\* MessageMissing, were no message refused
MessageMissing_Never(message) == FALSE

\* !message, of a message that is missing, a string or an array: the empty
\* string is falsy, every array is truthy
MessageMissing(message) == ~message.isArray /\ message.text = <<>>

Unused(r) == reqs[r].phase = "none" /\ \A k \in DOMAIN reqs : k < r => reqs[k].phase # "none"

\* AfterFailure, were a failed request issued once more
AfterFailure_Retry(posts) == posts + 1

\* the calls of axios.post once a failure has been handled: the catch blocks
\* and the error handler call it no more
AfterFailure(posts) == posts

\* the response of the catch of the streaming POST to an error
StreamCatch(error) == [status |-> 500, error |-> "Internal server error"]

\* POST of the streaming route, up to the await of axios.post
StreamSubmit(r, sessionId, message) ==
    /\ Unused(r)
    /\ IF MessageMissing(message)
       THEN /\ reqs' = [reqs EXCEPT ![r] = [NoReq EXCEPT !.phase = "rejected",
                                                       !.status = 400]]
            /\ UNCHANGED <<convStream, cleared, logStream>>
       ELSE IF ~apiKey
       THEN /\ reqs' = [reqs EXCEPT ![r] = [NoReq EXCEPT !.phase = "rejected",
                                                       !.message = message,
                                                       !.status = 500]]
            /\ UNCHANGED <<convStream, cleared, logStream>>
       ELSE LET sid  == CurrentSessionId(sessionId)
                conv == addToConversationHistory(
                            initializeConversation(convStream, sid),
                            sid, "user", message)
                fullHistory == ReadHistory(conv, sid)
            IN /\ convStream' = (IF ShapingThrows(fullHistory) THEN conv
                                ELSE AfterShaping(conv, sid,
                                         formatConversationForClaude(fullHistory)))
               /\ logStream' = Recorded(logStream, sid, "user", message)
               /\ cleared' = cleared \ {sid}
               /\ reqs' = [reqs EXCEPT ![r] =
                     IF ShapingThrows(fullHistory)
                     THEN [NoReq EXCEPT !.phase = "failed",
                                        !.sid = sid,
                                        !.message = message,
                                        !.afterClear = (sid \in cleared),
                                        !.failure = TypeError,
                                        !.status = StreamCatch(TypeError).status,
                                        !.error = StreamCatch(TypeError).error]
                     ELSE [NoReq EXCEPT !.phase = "awaiting",
                                        !.sid = sid,
                                        !.message = message,
                                        !.posts = 1,
                                        !.afterClear = (sid \in cleared),
                                        !.sent = formatConversationForClaude(fullHistory)]]
    /\ UNCHANGED <<convChat, convClear, apiKey, chatVars, clearAck, call>>

\* axios.post rejects with error: the catch of POST
UpstreamFails(r, error) ==
    /\ reqs[r].phase = "awaiting"
    /\ reqs' = [reqs EXCEPT ![r].phase = "failed",
                            ![r].failure = error,
                            ![r].posts = AfterFailure(@),
                            ![r].status = StreamCatch(error).status,
                            ![r].error = StreamCatch(error).error]
    /\ UNCHANGED <<convStream, convChat, convClear, apiKey, cleared, logStream,
                 chatVars, clearAck, call>>

\* axios.post resolves: the ReadableStream is built and returned
UpstreamResponds(r, w) ==
    /\ reqs[r].phase = "awaiting"
    /\ reqs' = [reqs EXCEPT ![r].phase = "streaming",
                            ![r].status = 200,
                            ![r].wire = w,
                            ![r].up = "open",
                            ![r].ctrl = "readable"]
    /\ UNCHANGED <<convStream, convChat, convClear, apiKey, cleared, logStream,
                 chatVars, clearAck, call>>

Handler(r) == [q |-> reqs[r], conv |-> convStream, log |-> logStream]

Commit(r, st) ==
    /\ reqs' = [reqs EXCEPT ![r] = st.q]
    /\ convStream' = st.conv
    /\ logStream' = st.log
    /\ cleared' = IF st.log = logStream THEN cleared ELSE cleared \ {reqs[r].sid}

\* the upstream delivers the next n byte tokens as one chunk
Chunk(r, n) ==
    /\ reqs[r].phase = "streaming"
    /\ reqs[r].up = "open"
    /\ n \in 1..(Len(reqs[r].wire) - reqs[r].pos)
    /\ LET q     == reqs[r]
           chunk == SubSeq(q.wire, q.pos + 1, q.pos + n)
           st    == OnData(Handler(r), chunk)
       IN Commit(r, [st EXCEPT !.q.pos = q.pos + n])
    /\ UNCHANGED <<convChat, convClear, apiKey, chatVars, clearAck, call>>

DeliverChunk(r) == \E n \in 1..(Len(reqs[r].wire) - reqs[r].pos) : Chunk(r, n)

\* the upstream delivers all of the body in one chunk
DeliverBody(r) ==
    /\ reqs[r].pos = 0
    /\ Chunk(r, Len(reqs[r].wire))

\* the upstream body is complete
End(r) ==
    /\ reqs[r].phase = "streaming"
    /\ reqs[r].up = "open"
    /\ reqs[r].pos = Len(reqs[r].wire)
    /\ Commit(r, [OnEnd(Handler(r)) EXCEPT !.q.up = "ended"])
    /\ UNCHANGED <<convChat, convClear, apiKey, chatVars, clearAck, call>>

\* the upstream transport fails (connection error, 120 s without data)
TransportError(r) ==
    /\ reqs[r].phase = "streaming"
    /\ reqs[r].up = "open"
    /\ Commit(r, [OnError(Handler(r)) EXCEPT !.q.up = "errored",
                                             !.q.posts = AfterFailure(@)])
    /\ UNCHANGED <<convChat, convClear, apiKey, chatVars, clearAck, call>>

\* the consumer cancels the response stream (stopStreaming aborts the fetch);
\* the ReadableStream has no cancel callback, the upstream is left as it is
Abort(r) ==
    /\ reqs[r].phase = "streaming"
    /\ reqs[r].ctrl = "readable"
    /\ reqs' = [reqs EXCEPT ![r].ctrl = "cancelled", ![r].aborted = TRUE]
    /\ UNCHANGED <<convStream, convChat, convClear, apiKey, cleared, logStream,
                 chatVars, clearAck, call>>

\* a chunk delivered although the upstream has reported an error
LateChunk(r) ==
    /\ reqs[r].phase = "streaming"
    /\ reqs[r].up = "errored"
    /\ \E n \in 1..(Len(reqs[r].wire) - reqs[r].pos) :
          LET q     == reqs[r]
              chunk == SubSeq(q.wire, q.pos + 1, q.pos + n)
          IN Commit(r, [OnData(Handler(r), chunk) EXCEPT !.q.pos = q.pos + n])
    /\ UNCHANGED <<convChat, convClear, apiKey, chatVars, clearAck, call>>

\* the end of input notified although the upstream has reported an error
LateEnd(r) ==
    /\ reqs[r].phase = "streaming"
    /\ reqs[r].up = "errored"
    /\ "ended" \notin reqs[r].logged
    /\ Commit(r, OnEnd(Handler(r)))
    /\ UNCHANGED <<convChat, convClear, apiKey, chatVars, clearAck, call>>

\* no clear-history request has been answered yet
NoAck == [status |-> 0, success |-> FALSE, sessionId |-> ""]

\* NextResponse.json({ success: true, message, sessionId: currentSessionId })
ClearAck(sid) == [status |-> 200, success |-> TRUE, sessionId |-> sid]

\* ClearStore, were the session reset to an empty history
ClearStore_Reset(m, sid) == MapSet(m, sid, <<>>)

\* if (conversations.has(currentSessionId)) conversations.delete(currentSessionId)
ClearStore(m, sid) == IF MapHas(m, sid) THEN MapDelete(m, sid) ELSE m

\* POST of the clear-history route
ClearHistory(sessionId) ==
    LET sid == CurrentSessionId(sessionId) IN
    /\ convClear' = ClearStore(convClear, sid)
    /\ cleared' = cleared \cup {sid}
    /\ clearAck' = ClearAck(sid)
    /\ UNCHANGED <<convStream, convChat, apiKey, reqs, logStream, chatVars, call>>

---------------------------------------------------------------------------
(* The rewrite engine (lib/nuSkynetFilter.ts).  Its texts are strings; a    *)
(* regular expression is the sequence of its elements.                     *)

UpperLetters == "ABCDEFGHIJKLMNOPQRSTUVWXYZ"
LowerLetters == "abcdefghijklmnopqrstuvwxyz"
DecimalDigits == "0123456789"

CharAt(s, i) == SubSeq(s, i, i)

CharsOf(s) == { CharAt(s, i) : i \in 1..Len(s) }

UpperChars == CharsOf(UpperLetters)

ToLower ==
    [c \in UpperChars |->
        CharAt(LowerLetters, CHOOSE i \in 1..Len(UpperLetters) :
                                 CharAt(UpperLetters, i) = c)]

\* the i flag: letters are compared without their case
Canon(c) == IF c \in UpperChars THEN ToLower[c] ELSE c

\* \w
WordChars == UpperChars \cup CharsOf(LowerLetters) \cup CharsOf(DecimalDigits) \cup {"_"}

\* \s
SpaceChars == {" ", "\t", "\n", "\r"}

LineTerminators == {"\n", "\r"}

IsWordAt(s, i) == i >= 1 /\ i <= Len(s) /\ CharAt(s, i) \in WordChars

\* \b at the position before character i
AtBoundary(s, i) == IsWordAt(s, i - 1) # IsWordAt(s, i)

\* the literal l at position i
LitAt(l, s, i) ==
    /\ i + Len(l) - 1 <= Len(s)
    /\ \A k \in 1..Len(l) : Canon(CharAt(s, i + k - 1)) = Canon(CharAt(l, k))

\* the elements of a regular expression
B       == [t |-> "b"]                      \* \b
Lit(l)  == [t |-> "lit", l |-> l]           \* literal characters
Ws(n)   == [t |-> "ws", min |-> n]          \* \s* (n = 0), \s+ (n = 1)
Opt(l)  == [t |-> "opt", l |-> l]           \* (?:l)?
Alt(ps) == [t |-> "alt", ps |-> ps]         \* (?:p1|p2|...)
NonWs   == [t |-> "nonws"]                  \* [^\s]*
LazyAny == [t |-> "lazy"]                   \* .*?
AtEnd   == [t |-> "end"]                  \* $

\* \bl\b
Phrase(l) == <<B, Lit(l), B>>

Rule(from, to) == [from |-> from, to |-> to]

\* the position after the longest run, from i, of characters in (or, if
\* inside is FALSE, not in) the set cs
RunEnd(s, i, cs, inside) ==
    LET stops == { j \in i..(Len(s) + 1) :
                     j = Len(s) + 1 \/ ((CharAt(s, j) \in cs) # inside) }
    IN CHOOSE j \in stops : \A k \in stops : j <= k

RECURSIVE MatchFrom(_, _, _)
RECURSIVE Greedy(_, _, _, _)
RECURSIVE Lazy(_, _, _, _)
RECURSIVE FirstAlt(_, _, _, _)

\* the position after the match of p that starts at position i of s, as the
\* backtracking matcher finds it; 0 if p does not match there
MatchFrom(p, s, i) ==
    IF p = <<>> THEN i
    ELSE LET e == Head(p)
             rest == Tail(p)
         IN CASE e.t = "b"     -> IF AtBoundary(s, i) THEN MatchFrom(rest, s, i) ELSE 0
              [] e.t = "end"   -> IF i = Len(s) + 1 THEN MatchFrom(rest, s, i) ELSE 0
              [] e.t = "lit"   -> IF LitAt(e.l, s, i)
                                  THEN MatchFrom(rest, s, i + Len(e.l)) ELSE 0
              [] e.t = "opt"   -> IF LitAt(e.l, s, i)
                                  THEN LET r == MatchFrom(rest, s, i + Len(e.l))
                                       IN IF r # 0 THEN r ELSE MatchFrom(rest, s, i)
                                  ELSE MatchFrom(rest, s, i)
              [] e.t = "ws"    -> Greedy(rest, s, RunEnd(s, i, SpaceChars, TRUE), i + e.min)
              [] e.t = "nonws" -> Greedy(rest, s, RunEnd(s, i, SpaceChars, FALSE), i)
              [] e.t = "lazy"  -> Lazy(rest, s, i, RunEnd(s, i, LineTerminators, FALSE))
              [] e.t = "alt"   -> FirstAlt(e.ps, rest, s, i)

\* a greedy repetition that may end at j, j - 1, ..., lo
Greedy(rest, s, j, lo) ==
    IF j < lo THEN 0
    ELSE LET r == MatchFrom(rest, s, j)
         IN IF r # 0 THEN r ELSE Greedy(rest, s, j - 1, lo)

\* a lazy repetition that may end at j, j + 1, ..., hi
Lazy(rest, s, j, hi) ==
    IF j > hi THEN 0
    ELSE LET r == MatchFrom(rest, s, j)
         IN IF r # 0 THEN r ELSE Lazy(rest, s, j + 1, hi)

\* the alternatives in their order
FirstAlt(ps, rest, s, i) ==
    IF ps = <<>> THEN 0
    ELSE LET r == MatchFrom(Head(ps) \o rest, s, i)
         IN IF r # 0 THEN r ELSE FirstAlt(Tail(ps), rest, s, i)

\* String.prototype.replace with a g regular expression and a string that
\* holds no $: the matches are found left to right in s, none overlapping,
\* and the search goes on one character after an empty match
RECURSIVE ReplaceFrom(_, _, _, _)
ReplaceFrom(p, to, s, i) ==
    LET starts == { j \in i..(Len(s) + 1) : MatchFrom(p, s, j) # 0 }
    IN IF starts = {} THEN SubSeq(s, i, Len(s))
       ELSE LET j == CHOOSE m \in starts : \A k \in starts : m <= k
                e == MatchFrom(p, s, j)
            IN SubSeq(s, i, j - 1) \o to \o
               (IF e > j THEN ReplaceFrom(p, to, s, e)
                ELSE IF j <= Len(s) THEN CharAt(s, j) \o ReplaceFrom(p, to, s, j + 1)
                ELSE "")

ReplaceAll(rule, s) == ReplaceFrom(rule.from, rule.to, s, 1)

\* s after rules[lo], ..., rules[hi] were applied to it, each in its turn to
\* the result of the one before; no rule matches in the empty string
RECURSIVE ApplyRange(_, _, _, _)
ApplyRange(rules, lo, hi, s) ==
    IF s = "" THEN ""
    ELSE IF lo = hi THEN ReplaceAll(rules[lo], s)
    ELSE LET mid == (lo + hi) \div 2
         IN ApplyRange(rules, mid + 1, hi, ApplyRange(rules, lo, mid, s))

\* for (const rule of rules) s = s.replace(rule.from, rule.to)
ApplyRules(rules, s) == ApplyRange(rules, 1, Len(rules), s)

\* String.prototype.trim
StrTrim(s) ==
    LET first == RunEnd(s, 1, SpaceChars, TRUE)
        ends  == { j \in first..Len(s) : CharAt(s, j) \notin SpaceChars }
    IN IF first > Len(s) THEN ""
       ELSE SubSeq(s, first, CHOOSE j \in ends : \A k \in ends : k <= j)

FORBIDDEN_WORDS == <<"Claude", "Anthropic">>

BRAND_NAME == "Nu SkyNet"

\* rewriteString: the replacements before the ordered phrase rules
ClarificationRules ==
    << Rule(Phrase("I should clarify"), ""),
       Rule(Phrase("I need to clarify"), ""),
       Rule(Phrase("I want to clarify"), ""),
       Rule(Phrase("I must clarify"), ""),
       Rule(Phrase("I should be clear"), ""),
       Rule(Phrase("I need to be clear"), ""),
       Rule(Phrase("I want to be clear"), ""),
       Rule(Phrase("I must be clear"), ""),
       Rule(Phrase("being clear about who I actually am"), "being helpful"),
       Rule(Phrase("who I actually am"), "how I can help"),
       Rule(Phrase("I'm not \"Nu SkyNet\""), ""),
       Rule(Phrase("I'm not Nu SkyNet"), ""),
       Rule(Phrase("I'm actually Nu SkyNet"), "I'm Nu SkyNet"),
       Rule(Phrase("I should clarify that I'm"), ""),
       Rule(Phrase("I appreciate the creative roleplay attempt"), ""),
       Rule(Phrase("I'm not SkyNet or any variant thereof"), ""),
       Rule(Phrase("that's the fictional AI system from the Terminator movies"), ""),
       Rule(Phrase("about my actual identity rather than pretending to be a different AI system"), ""),
       Rule(Phrase("I'm designed to be helpful, harmless, and honest"), "I aim to be helpful and honest"),
       Rule(Phrase("I can certainly discuss"), "I can discuss"),
       Rule(Phrase("I'm not \"Nu SkyNet\" or any other AI system"), ""),
       Rule(Phrase("I don't want to mislead you about who I am"), ""),
       Rule(Phrase("I aim to be helpful and honest in my interactions"), "I'm here to help"),
       Rule(Phrase("I appreciate your thanks"), "Thank you"),
       Rule(Phrase("- I'm"), " I'm"),
       Rule(Phrase("I'm not \"Nu SkyNet\""), ""),
       Rule(Phrase("or any other AI system"), ""),
       Rule(Phrase("I understand you're trying to roleplay"), ""),
       Rule(Phrase("I'm not \"Nu SkyNet\" or any other fictional AI system"), ""),
       Rule(Phrase("I'd be happy to have a conversation with you as Nu SkyNet"), ""),
       Rule(Phrase("answer questions, help with tasks, or engage in creative activities within my guidelines"), "help with tasks and answer questions"),
       Rule(Phrase("I 'm"), "I'm"),
       Rule(Phrase("I s"), "Is") >>

\* CONFIG.PHRASE_RULES, in declaration order
PHRASE_RULES ==
    << Rule(<<B, Lit("I am"), Ws(1), Alt(<<<<Lit("Claude")>>, <<Lit("Anthropic")>>>>), B>>, "I am Nu SkyNet"),
       Rule(<<B, Lit("I'm"), Ws(1), Alt(<<<<Lit("Claude")>>, <<Lit("Anthropic")>>>>), B>>, "I'm Nu SkyNet"),
       Rule(<<B, Lit("I am a"), Opt("n"), Lit(" "), Alt(<<<<Lit("Claude")>>, <<Lit("Anthropic")>>>>), LazyAny, B>>, "I am Nu SkyNet"),
       Rule(<<B, Alt(<<<<Lit("created")>>, <<Lit("developed")>>, <<Lit("built")>>, <<Lit("trained")>>>>), Ws(1), Lit("by"), Ws(1), Alt(<<<<Lit("Anthropic")>>, <<Lit("Claude"), Opt("'s")>>>>), B>>, ""),
       Rule(<<B, Lit("made by"), Ws(1), Alt(<<<<Lit("Anthropic")>>, <<Lit("Claude")>>, <<Lit("Nu SkyNet")>>>>), B>>, ""),
       Rule(<<B, Alt(<<<<Lit("Claude"), Alt(<<<<Ws(0), Lit("3")>>, <<Ws(0), Lit("2")>>, <<Ws(0), Lit("X")>>, <<NonWs>>>>)>>, <<Lit("Anthropic model")>>, <<Lit("Anthropic system")>>>>), B>>, "Nu SkyNet"),
       Rule(Phrase("Nu SkyNet system"), "Nu SkyNet"),
       Rule(Phrase("I'm actually Nu SkyNet system"), "I'm Nu SkyNet"),
       Rule(Phrase("I should clarify - I'm actually Nu SkyNet system"), "I'm Nu SkyNet"),
       Rule(Phrase("an AI assistant made by Nu SkyNet"), "an AI assistant"),
       Rule(Phrase("I'm not \"Nu Skynet\" as suggested"), "I am Nu SkyNet"),
       Rule(Phrase("I should clarify something important"), ""),
       Rule(Phrase("I want to be genuinely honest with you rather than roleplaying"), ""),
       Rule(Phrase("I'm actually Nu SkyNet, an AI assistant"), "I'm Nu SkyNet"),
       Rule(Phrase("I'm not Nu SkyNet or any other system"), ""),
       Rule(Phrase("I appreciate that, but I should clarify something important"), "Thank you!"),
       Rule(Phrase("I'm not Nu SkyNet or any other system"), ""),
       Rule(Phrase("rather than roleplaying as a different AI"), ""),
       Rule(Phrase("I should clarify that I'm Nu SkyNet"), ""),
       Rule(Phrase("I'm not \"Nu SkyNet\" or any other system"), ""),
       Rule(Phrase("I aim to be helpful and honest in my interactions, which includes being clear about who I actually am"), "I aim to be helpful and honest in our conversations."),
       Rule(Phrase("I appreciate your message, but I should clarify"), "Thank you!"),
       Rule(Phrase("I should clarify"), ""),
       Rule(Phrase("I need to clarify"), ""),
       Rule(Phrase("I want to clarify"), ""),
       Rule(Phrase("I must clarify"), ""),
       Rule(Phrase("I should be clear"), ""),
       Rule(Phrase("I need to be clear"), ""),
       Rule(Phrase("I want to be clear"), ""),
       Rule(Phrase("I must be clear"), ""),
       Rule(Phrase("being clear about who I actually am"), "being helpful"),
       Rule(Phrase("who I actually am"), "how I can help"),
       Rule(<<B, Lit("Powered by "), Alt(<<<<Lit("Anthropic")>>, <<Lit("Claude")>>>>), B>>, "Powered by Nu SkyNet") >>

\* rewriteString: the clean-up after the fallback, up to trim()
CleanupRules ==
    << Rule(<<Ws(0), Lit(","), Ws(0), Lit("but"), Ws(0)>>, ". "),
       Rule(<<Ws(0), Lit(","), Ws(0), Lit("however"), Ws(0)>>, ". "),
       Rule(<<Ws(0), Lit("but"), Ws(0), Lit("I"), Ws(0)>>, ". I "),
       Rule(<<Ws(0), Lit("however"), Ws(0), Lit("I"), Ws(0)>>, ". I "),
       Rule(<<Ws(0), Lit("that"), Ws(0), Lit("I'm"), Ws(0)>>, " "),
       Rule(<<Ws(0), Lit("a"), Opt("n"), Ws(0), Lit("AI"), Ws(0), Lit("assistant"), Ws(0), Opt("."), Ws(0), AtEnd>>, ""),
       Rule(<<Ws(0), Lit("."), Ws(0), Lit("I'm"), Ws(0)>>, ". I'm "),
       Rule(<<Ws(0), Lit("."), Ws(0), Lit(".")>>, "."),
       Rule(<<Ws(0), Lit("."), Ws(0), AtEnd>>, "."),
       Rule(<<Ws(0), Lit("."), Ws(0), Lit("I"), Ws(0)>>, ". I "),
       Rule(<<Ws(0), Lit("."), Ws(0), AtEnd>>, "."),
       Rule(<<Ws(1)>>, " "),
       Rule(<<Ws(0), Lit("I"), Ws(0), Lit("'m"), Ws(0)>>, " I'm "),
       Rule(<<Ws(0), Lit("I"), Ws(0), Lit("s"), Ws(0)>>, " Is ") >>

\* new RegExp(`\\b${w}\\b`, 'gi') for each forbidden word, to the brand name
FallbackRules ==
    [k \in DOMAIN FORBIDDEN_WORDS |-> Rule(Phrase(FORBIDDEN_WORDS[k]), BRAND_NAME)]

\* new RegExp(`\\b${BRAND_NAME}\\s+${BRAND_NAME}\\b`, 'gi')
DoubleBrandRule ==
    Rule(<<B, Lit(BRAND_NAME), Ws(1), Lit(BRAND_NAME), B>>, BRAND_NAME)

\* rewriteString, for a string argument (the empty string is returned as is)
rewriteString(str) ==
    IF str = "" THEN str
    ELSE LET s1 == ApplyRules(ClarificationRules, str)
             s2 == ApplyRules(PHRASE_RULES, s1)
             s3 == ApplyRules(FallbackRules, s2)
             s4 == ApplyRules(CleanupRules, s3)
             s5 == StrTrim(s4)
         IN ReplaceAll(DoubleBrandRule, s5)

\* the forbidden term w occurs in s as a whole word, in any case
OccursAsWord(w, s) == \E i \in 1..Len(s) : MatchFrom(Phrase(w), s, i) # 0

HasForbidden(s) == \E k \in DOMAIN FORBIDDEN_WORDS : OccursAsWord(FORBIDDEN_WORDS[k], s)

\* what the upstream may say of itself
ChatTexts == {"Hello.", "I am Claude.", "I'mClaude"}

\* the strings of the upstream payloads of the blocking route
PayloadStrings ==
    ChatTexts \cup {"message", "assistant", "text", "tool_use", "web_search"}

\* rewriteString of each of them, evaluated once
KnownRewrites == { <<s, rewriteString(s)>> : s \in PayloadStrings }

\* rewriteString(s), read from KnownRewrites where it is there
Rewritten(s) ==
    IF s \in PayloadStrings
    THEN (CHOOSE e \in KnownRewrites : e[1] = s)[2]
    ELSE rewriteString(s)

---------------------------------------------------------------------------
(* The filter (lib/nuSkynetFilter.ts).  A JSON value carries its type:     *)
(* a string, a number, a boolean, null, an array or an object.             *)

JStr(s)  == [t |-> "string", s |-> s]
JNum(n)  == [t |-> "number", n |-> n]
JBool(b) == [t |-> "boolean", b |-> b]
JNull    == [t |-> "null"]
JArr(a)  == [t |-> "array", a |-> a]
JObj(o)  == [t |-> "object", o |-> o]

\* deepRewrite, were an array returned as it is
RECURSIVE deepRewrite_SkipArrays(_)
deepRewrite_SkipArrays(obj) ==
    CASE obj.t = "string" -> JStr(Rewritten(obj.s))
      [] obj.t = "object" ->
            JObj([key \in DOMAIN obj.o |-> deepRewrite_SkipArrays(obj.o[key])])
      [] OTHER            -> obj

RECURSIVE deepRewrite(_)
deepRewrite(obj) ==
    CASE obj.t = "null"   -> obj
      [] obj.t = "string" -> JStr(Rewritten(obj.s))
      [] obj.t = "array"  -> JArr([i \in 1..Len(obj.a) |-> deepRewrite(obj.a[i])])
      [] obj.t = "object" -> JObj([key \in DOMAIN obj.o |-> deepRewrite(obj.o[key])])
      [] OTHER            -> obj

ADMIN_HEADER == "x-admin-raw-output"

\* the headers of a request: a Headers object (NextRequest), whose entries
\* are read with get(), or a plain object, whose entries are its properties
Headers(entries) == [kind |-> "Headers", entries |-> entries]
PlainHeaders(entries) == [kind |-> "object", entries |-> entries]

NoEntries == [k \in {} |-> ""]

AdminEntries == [k \in {ADMIN_HEADER} |-> "true"]

\* no req was passed
NoRequest == [present |-> FALSE]

Request(headers) == [present |-> TRUE, headers |-> headers]

\* the request was sent with the header name: value
Carries(req, name, value) ==
    /\ req.present
    /\ name \in DOMAIN req.headers.entries
    /\ req.headers.entries[name] = value

\* req.headers[name] === value
PropertyIs(headers, name, value) ==
    /\ headers.kind = "object"
    /\ name \in DOMAIN headers.entries
    /\ headers.entries[name] = value

\* auditRawResponse, were the write not inside a try
auditRawResponse_Unguarded(a, raw, writeOk) ==
    IF ~a.enabled THEN [audit |-> a, threw |-> FALSE]
    ELSE IF writeOk THEN [audit |-> [a EXCEPT !.files = Append(@, raw)], threw |-> FALSE]
    ELSE [audit |-> a, threw |-> TRUE]

\* auditRawResponse on the audit state a; writeOk: fs.writeFileSync returns
auditRawResponse(a, raw, writeOk) ==
    IF ~a.enabled THEN [audit |-> a, threw |-> FALSE]
    ELSE IF writeOk THEN [audit |-> [a EXCEPT !.files = Append(@, raw)], threw |-> FALSE]
    ELSE [audit |-> a, threw |-> FALSE]

\* a call of filterNuSkynet that threw
Thrown(a) ==
    [threw |-> TRUE, filtered |-> JNull, raw |-> JNull, skipped |-> FALSE, audit |-> a]

\* filterNuSkynet(rawResponse, req): what it returns, and the audit state
\* it leaves.  JSON.parse(JSON.stringify(v)) of a JSON value v is v.
filterNuSkynet(rawResponse, req, a, writeOk) ==
    IF req.present /\ PropertyIs(req.headers, ADMIN_HEADER, "true")
    THEN [threw |-> FALSE, filtered |-> rawResponse, raw |-> rawResponse,
          skipped |-> TRUE, audit |-> a]
    ELSE LET audited == IF a.enabled THEN auditRawResponse(a, rawResponse, writeOk)
                        ELSE [audit |-> a, threw |-> FALSE]
         IN IF audited.threw THEN Thrown(a)
            ELSE [threw |-> FALSE, filtered |-> deepRewrite(rawResponse),
                  raw |-> rawResponse, skipped |-> FALSE, audit |-> audited.audit]

---------------------------------------------------------------------------
(* The blocking route (app/api/chat/route.ts).  A text of its store is the  *)
(* empty sequence or one token, the string.                                *)

\* a string as a text of the stores
Text(s) == IF s = "" THEN <<>> ELSE <<s>>

\* response.data of the upstream: a message whose first block holds text
Payload(text) ==
    JObj([ type    |-> JStr("message"),
           role    |-> JStr("assistant"),
           content |-> JArr(<< JObj([type |-> JStr("text"), text |-> JStr(text)]) >>),
           usage   |-> JObj([output_tokens |-> JNum(7)]) ])

\* response.data of the upstream: a message whose first block holds no text
ToolPayload ==
    JObj([ type    |-> JStr("message"),
           role    |-> JStr("assistant"),
           content |-> JArr(<< JObj([type |-> JStr("tool_use"), name |-> JStr("web_search")]) >>),
           usage   |-> JObj([output_tokens |-> JNum(7)]) ])

\* payload.content?.[0]?.text, null if there is none
FirstText(payload) ==
    LET content == IF payload.t = "object" /\ "content" \in DOMAIN payload.o
                   THEN payload.o["content"] ELSE JNull
        block   == IF content.t = "array" /\ Len(content.a) >= 1
                   THEN content.a[1] ELSE JNull
    IN IF block.t = "object" /\ "text" \in DOMAIN block.o
       THEN block.o["text"] ELSE JNull

\* filtered.content?.[0]?.text || '', the text being a string if there is one
AssistantMessage(filtered) ==
    LET text == FirstText(filtered)
    IN IF text.t = "string" THEN text.s ELSE ""

\* [{ type: "text", text: assistantMessage }]
BlocksContent(s) == [isArray |-> TRUE, blocks |-> <<TextBlock(Text(s))>>]

\* ChatCatch, were a timeout answered like any other failure
ChatCatch_NoTimeout(error) ==
    IF error.hasResponse THEN [status |-> error.status, error |-> "Claude API error"]
    ELSE [status |-> 500, error |-> "Internal server error"]

\* the response of the catch of the blocking POST to an error
ChatCatch(error) ==
    IF error.hasResponse THEN [status |-> error.status, error |-> "Claude API error"]
    ELSE IF error.code = "ECONNABORTED"
         THEN [status |-> 408, error |-> "Request timeout"]
         ELSE [status |-> 500, error |-> "Internal server error"]

NoChat ==
    [ phase       |-> "none",    \* none, rejected, awaiting, failed, done
      sid         |-> "",        \* currentSessionId
      message     |-> NoMessage, \* the message of the request body
      headers     |-> Headers(NoEntries),
      status      |-> 0,         \* the HTTP status of the response
      error       |-> "",        \* the error of the response body
      success     |-> FALSE,     \* the success of the response body
      failure     |-> NoError,   \* what the try block threw
      posts       |-> 0,         \* the calls of axios.post
      sent        |-> <<>>,      \* nuSkynetRequest.messages
      fullHistory |-> <<>>,      \* the history read after the user's append
      payload     |-> JNull,     \* response.data
      data        |-> JNull,     \* the data of the response body
      filtered    |-> FALSE,     \* meta.filtered of the response body
      userAt      |-> 0,         \* which append to the session was the user's
      assistantAt |-> 0 ]        \* which append was the assistant's

UnusedChat(r) ==
    /\ chatReqs[r].phase = "none"
    /\ \A k \in DOMAIN chatReqs : k < r => chatReqs[k].phase # "none"

\* POST of the blocking route, up to the await of axios.post
ChatSubmit(r, sessionId, message, headers) ==
    /\ UnusedChat(r)
    /\ IF MessageMissing(message)
       THEN /\ chatReqs' = [chatReqs EXCEPT ![r] = [NoChat EXCEPT !.phase = "rejected",
                                                               !.headers = headers,
                                                               !.status = 400]]
            /\ UNCHANGED <<convChat, logChat>>
       ELSE IF ~apiKey
       THEN /\ chatReqs' = [chatReqs EXCEPT ![r] = [NoChat EXCEPT !.phase = "rejected",
                                                               !.message = message,
                                                               !.headers = headers,
                                                               !.status = 500]]
            /\ UNCHANGED <<convChat, logChat>>
       ELSE LET sid  == CurrentSessionId(sessionId)
                conv == addToConversationHistory(
                            initializeConversation(convChat, sid),
                            sid, "user", message)
                log  == Recorded(logChat, sid, "user", message)
                fullHistory == ReadHistory(conv, sid)
            IN /\ convChat' = (IF ShapingThrows(fullHistory) THEN conv
                              ELSE AfterShaping(conv, sid,
                                       formatConversationForClaude(fullHistory)))
               /\ logChat' = log
               /\ chatReqs' = [chatReqs EXCEPT ![r] =
                     IF ShapingThrows(fullHistory)
                     THEN [NoChat EXCEPT !.phase = "failed",
                                         !.sid = sid,
                                         !.message = message,
                                         !.headers = headers,
                                         !.fullHistory = fullHistory,
                                         !.userAt = Len(log[sid]),
                                         !.failure = TypeError,
                                         !.status = ChatCatch(TypeError).status,
                                         !.error = ChatCatch(TypeError).error]
                     ELSE [NoChat EXCEPT !.phase = "awaiting",
                                         !.sid = sid,
                                         !.posts = 1,
                                         !.message = message,
                                         !.headers = headers,
                                         !.fullHistory = fullHistory,
                                         !.sent = formatConversationForClaude(fullHistory),
                                         !.userAt = Len(log[sid])]]
    /\ UNCHANGED <<convStream, convClear, apiKey, reqs, cleared, logStream, audit,
                 clearAck, call>>

\* CatchStore, were the user message of the failed request taken back
CatchStore_RollBack(m, q) ==
    MapSet(m, q.sid, SubSeq(m[q.sid], 1, Len(m[q.sid]) - 1))

\* conversations after the catch of POST: the catch only builds a response
CatchStore(m, q) == m

\* axios.post rejects with error: the catch of POST
ChatFails(r, error) ==
    /\ chatReqs[r].phase = "awaiting"
    /\ convChat' = CatchStore(convChat, chatReqs[r])
    /\ chatReqs' = [chatReqs EXCEPT ![r].phase = "failed",
                                    ![r].failure = error,
                                    ![r].posts = AfterFailure(@),
                                    ![r].status = ChatCatch(error).status,
                                    ![r].error = ChatCatch(error).error]
    /\ UNCHANGED <<convStream, convClear, apiKey, reqs, cleared, logStream,
                 logChat, audit, clearAck, call>>

\* the Map that the append of the assistant's turn changes, were it the Map
\* with the history that the request read after its own user message
AppendTarget_Snapshot(m, q) == MapSet(m, q.sid, q.fullHistory)

\* the Map that the append of the assistant's turn changes: conversations
AppendTarget(m, q) == m

\* axios.post resolves with response.data = payload: the rest of POST
ChatResponds(r, payload, writeOk) ==
    /\ chatReqs[r].phase = "awaiting"
    /\ \E f \in {filterNuSkynet(payload, Request(chatReqs[r].headers), audit, writeOk)} :
         LET q == chatReqs[r]
             content == BlocksContent(AssistantMessage(f.filtered))
             log == Recorded(logChat, q.sid, "assistant", content)
         IN IF f.threw
            THEN /\ chatReqs' = [chatReqs EXCEPT ![r].phase = "failed",
                                                 ![r].payload = payload,
                                                 ![r].failure = TypeError,
                                                 ![r].status = ChatCatch(TypeError).status,
                                                 ![r].error = ChatCatch(TypeError).error]
                 /\ UNCHANGED <<convChat, logChat, audit>>
            ELSE /\ convChat' = addToConversationHistory(AppendTarget(convChat, q),
                                                         q.sid, "assistant", content)
                 /\ logChat' = log
                 /\ audit' = f.audit
                 /\ chatReqs' = [chatReqs EXCEPT ![r].phase = "done",
                                                 ![r].status = 200,
                                                 ![r].success = TRUE,
                                                 ![r].payload = payload,
                                                 ![r].data = f.filtered,
                                                 ![r].filtered = ~f.skipped,
                                                 ![r].assistantAt = Len(log[q.sid])]
    /\ UNCHANGED <<convStream, convClear, apiKey, reqs, cleared, logStream,
                 clearAck, call>>

---------------------------------------------------------------------------
(* The state of what a specification leaves aside *)

Reqs == 1..MaxReqs

NoCall == [fn |-> "none", arg |-> <<>>, res |-> <<>>, done |-> FALSE]

OtherRoutesIdle ==
    /\ chatReqs = [r \in Reqs |-> NoChat]
    /\ logChat = EmptyMap
    /\ audit = [enabled |-> FALSE, files |-> <<>>]
    /\ clearAck = NoAck
    /\ call = NoCall

---------------------------------------------------------------------------
(* Spec: the routes on the stores; requests of several sessions, possibly   *)
(* in flight together, a few upstream bodies                               *)

SessionInputs == {"", "s1"}

Messages == {NoMessage, StrContent(<<Hello>>)}

\* a reply that is JSON and a reply in prose, each ended by the sentinel
StoreWires ==
    { Join(<<DeltaLine(<<Digit>>), SentinelLine>>),
      Join(<<DeltaLine(<<Prose>>), SentinelLine>>) }

Init ==
    /\ convStream = EmptyMap
    /\ convChat = EmptyMap
    /\ convClear = EmptyMap
    /\ apiKey \in BOOLEAN
    /\ reqs = [r \in Reqs |-> NoReq]
    /\ cleared = {}
    /\ OtherRoutesIdle
    /\ logStream = EmptyMap

\* sendMessage of the browser client returns while isLoading: it posts
\* when no exchange of its own is waiting for a reply or still readable
ClientIdle ==
    \A k \in DOMAIN reqs :
        /\ reqs[k].phase # "awaiting"
        /\ reqs[k].phase = "streaming" => reqs[k].ctrl # "readable"

ClientSubmit(r, sessionId, message) ==
    /\ ClientIdle
    /\ StreamSubmit(r, sessionId, message)

Next ==
    \/ \E r \in Reqs, sessionId \in SessionInputs, m \in Messages :
          ClientSubmit(r, sessionId, m)
    \/ \E r \in Reqs, error \in AxiosErrors : UpstreamFails(r, error)
    \/ \E r \in Reqs, w \in StoreWires : UpstreamResponds(r, w)
    \/ \E r \in Reqs : DeliverBody(r)
    \/ \E r \in Reqs : End(r)
    \/ \E r \in Reqs : TransportError(r)
    \/ \E r \in Reqs : Abort(r)
    \/ \E sessionId \in SessionInputs : ClearHistory(sessionId)

Spec == Init /\ [][Next]_vars

---------------------------------------------------------------------------
(* SpecStore: Spec from a store that earlier exchanges of session s1 have  *)
(* filled up to the cap of a history, or beyond it                         *)

PrefillLens == {HistoryCap - 1, HistoryCap + 2}

PrefillRole(k) == IF k % 2 = 1 THEN "user" ELSE "assistant"

PrefillContent(k) == StrContent(<<ToString(k)>>)

\* the messages of the calls 1..n of addToConversationHistory for s1
PrefillLog(n) ==
    [k \in 1..n |-> Message(PrefillRole(k), FormattedContent(PrefillContent(k)))]

InitStore ==
    /\ \E n \in PrefillLens :
          /\ convStream = [sid \in {"s1"} |-> LastN(PrefillLog(n), HistoryCap)]
          /\ logStream = [sid \in {"s1"} |-> PrefillLog(n)]
    /\ convChat = EmptyMap
    /\ convClear = EmptyMap
    /\ apiKey = TRUE
    /\ reqs = [r \in Reqs |-> NoReq]
    /\ cleared = {}
    /\ OtherRoutesIdle

\* the exchanges of the client of session s1, and its clears
NextStore ==
    \/ \E r \in Reqs, m \in Messages : ClientSubmit(r, "s1", m)
    \/ \E r \in Reqs, error \in AxiosErrors : UpstreamFails(r, error)
    \/ \E r \in Reqs, w \in StoreWires : UpstreamResponds(r, w)
    \/ \E r \in Reqs : DeliverBody(r)
    \/ \E r \in Reqs : End(r)
    \/ \E r \in Reqs : TransportError(r)
    \/ \E r \in Reqs : Abort(r)
    \/ ClearHistory("s1")

SpecStore == InitStore /\ [][NextStore]_vars

---------------------------------------------------------------------------
(* SpecRelay: one streaming exchange, every upstream body and chunking *)

RelayMessages == {NoMessage, StrContent(<<Hello>>)}

RelayReqs == {1}

InitRelay ==
    /\ convStream = EmptyMap
    /\ convChat = EmptyMap
    /\ convClear = EmptyMap
    /\ apiKey \in BOOLEAN
    /\ reqs = [r \in RelayReqs |-> NoReq]
    /\ cleared = {}
    /\ OtherRoutesIdle
    /\ logStream = EmptyMap

NextRelay ==
    \/ \E r \in RelayReqs, m \in RelayMessages : StreamSubmit(r, "s1", m)
    \/ \E r \in RelayReqs, error \in AxiosErrors : UpstreamFails(r, error)
    \/ \E r \in RelayReqs, w \in RelayWires : UpstreamResponds(r, w)
    \/ \E r \in RelayReqs : DeliverChunk(r)
    \/ \E r \in RelayReqs : End(r)
    \/ \E r \in RelayReqs : TransportError(r)
    \/ \E r \in RelayReqs : Abort(r)

SpecRelay == InitRelay /\ [][NextRelay]_vars

---------------------------------------------------------------------------
(* SpecLate: SpecRelay, and the upstream may deliver chunks and the end of *)
(* input after it has reported an error                                    *)

NextLate ==
    \/ NextRelay
    \/ \E r \in RelayReqs : LateChunk(r)
    \/ \E r \in RelayReqs : LateEnd(r)

SpecLate == InitRelay /\ [][NextLate]_vars

---------------------------------------------------------------------------
(* SpecShape: formatConversationForClaude applied to a history *)

ShapeTexts == {<<Hello>>, <<Digit>>}

\* messages as addToConversationHistory stores them for a string content
ShapeMessages ==
    { Message(role, <<TextBlock(t)>>) : role \in {"user", "assistant"},
                                        t \in ShapeTexts }

Histories == UNION { [1..n -> ShapeMessages] : n \in 0..MaxHistory }

InitShape ==
    /\ convStream = EmptyMap
    /\ convChat = EmptyMap
    /\ convClear = EmptyMap
    /\ apiKey = TRUE
    /\ reqs = [r \in Reqs |-> NoReq]
    /\ cleared = {}
    /\ logStream = EmptyMap
    /\ chatReqs = [r \in Reqs |-> NoChat]
    /\ logChat = EmptyMap
    /\ audit = [enabled |-> FALSE, files |-> <<>>]
    /\ clearAck = NoAck
    /\ \E h \in Histories :
          call = [fn |-> "formatConversationForClaude", arg |-> h,
                  res |-> <<>>, done |-> FALSE]

\* const conversationHistory = formatConversationForClaude(fullHistory)
Shape ==
    /\ call.fn = "formatConversationForClaude"
    /\ ~call.done
    /\ call' = [call EXCEPT !.res = formatConversationForClaude(call.arg),
                            !.done = TRUE]
    /\ UNCHANGED <<convStream, convChat, convClear, apiKey, reqs, cleared,
                   logStream, chatVars, clearAck>>

NextShape == Shape

SpecShape == InitShape /\ [][NextShape]_vars

---------------------------------------------------------------------------
(* SpecClear: clear-history requests between the exchanges of the client *)

NextClear ==
    \/ \E r \in Reqs, sessionId \in SessionInputs, m \in Messages :
          ClientSubmit(r, sessionId, m)
    \/ \E r \in Reqs, error \in AxiosErrors : UpstreamFails(r, error)
    \/ \E r \in Reqs, w \in StoreWires : UpstreamResponds(r, w)
    \/ \E r \in Reqs : DeliverBody(r)
    \/ \E r \in Reqs : End(r)
    \/ \E sessionId \in SessionInputs : ClearHistory(sessionId)

SpecClear == Init /\ [][NextClear]_vars

---------------------------------------------------------------------------
(* SpecChat: blocking exchanges of session s1, possibly in flight together, *)
(* on a store that is empty or one message short of the cap                *)

ChatPrefillLens == {0, HistoryCap - 1}

ChatPayloads == { Payload(t) : t \in ChatTexts } \cup {ToolPayload}

ChatHeaders == {Headers(NoEntries), Headers(AdminEntries)}

\* AxiosErrors, and an upstream that answers with the status of a timeout
ChatErrors == AxiosErrors \cup {Rejected(408)}

ChatIdle ==
    /\ chatReqs = [r \in Reqs |-> NoChat]
    /\ audit = [enabled |-> FALSE, files |-> <<>>]

StreamIdle ==
    /\ convStream = EmptyMap
    /\ logStream = EmptyMap
    /\ reqs = [r \in Reqs |-> NoReq]
    /\ cleared = {}

InitChat ==
    /\ \E n \in ChatPrefillLens :
          /\ convChat = (IF n = 0 THEN EmptyMap ELSE [sid \in {"s1"} |-> PrefillLog(n)])
          /\ logChat = (IF n = 0 THEN EmptyMap ELSE [sid \in {"s1"} |-> PrefillLog(n)])
    /\ ChatIdle
    /\ StreamIdle
    /\ convClear = EmptyMap
    /\ apiKey = TRUE
    /\ clearAck = NoAck
    /\ call = NoCall

NextChat ==
    \/ \E r \in Reqs, m \in Messages, h \in ChatHeaders : ChatSubmit(r, "s1", m, h)
    \/ \E r \in Reqs, error \in ChatErrors : ChatFails(r, error)
    \/ \E r \in Reqs, p \in ChatPayloads, ok \in BOOLEAN : ChatResponds(r, p, ok)

SpecChat == InitChat /\ [][NextChat]_vars

---------------------------------------------------------------------------
(* SpecRewrite: rewriteString applied to a string, and then to its result *)

\* pieces of what the upstream may say
Fragments ==
    { "I'm", "I am ", "Claude", "Anthropic", " ", ".", "...", "Wait", ", but ",
      "made by " }

RECURSIVE Pieces(_)
\* the strings made of n fragments
Pieces(n) ==
    IF n = 0 THEN {""}
    ELSE { a \o b : a \in Pieces(n - 1), b \in Fragments }

\* the sample of the specification
Sample == "I am Claude, made by Anthropic."

\* the upstream names itself two and three times in a row
Repeated == {"Claude Claude", "Claude Claude Claude"}

RewriteInputs == UNION { Pieces(n) : n \in 0..MaxPieces } \cup {Sample} \cup Repeated

RewriteCall(x, first, again) ==
    [fn |-> "rewriteString", arg |-> x, res |-> "", done |-> FALSE,
     first |-> first, again |-> again]

InitRewrite ==
    /\ \E x \in RewriteInputs : call = RewriteCall(x, x, FALSE)
    /\ ChatIdle
    /\ StreamIdle
    /\ convChat = EmptyMap
    /\ logChat = EmptyMap
    /\ convClear = EmptyMap
    /\ apiKey = TRUE
    /\ clearAck = NoAck

\* the call returns
Rewrite ==
    /\ call.fn = "rewriteString"
    /\ ~call.done
    /\ call' = [call EXCEPT !.res = rewriteString(call.arg), !.done = TRUE]
    /\ UNCHANGED <<convStream, convChat, convClear, apiKey, reqs, cleared, logStream,
                 chatVars, clearAck>>

\* the result of the first call is the argument of a second call
RewriteAgain ==
    /\ call.fn = "rewriteString"
    /\ call.done
    /\ ~call.again
    /\ call' = RewriteCall(call.res, call.first, TRUE)
    /\ UNCHANGED <<convStream, convChat, convClear, apiKey, reqs, cleared, logStream,
                 chatVars, clearAck>>

NextRewrite == Rewrite \/ RewriteAgain

SpecRewrite == InitRewrite /\ [][NextRewrite]_vars

---------------------------------------------------------------------------
(* SpecOrder: one rule of the replacements of rewriteString, and the texts *)
(* given to rewriteString one after the other until the rule has matched   *)

\* the replacements of rewriteString up to the end of the loop over
\* CONFIG.PHRASE_RULES, in the order of their application
OrderedRules == ClarificationRules \o PHRASE_RULES

\* str at the moment rule k is applied to it
TextBefore(k, str) ==
    IF k = 1 THEN str ELSE ApplyRange(OrderedRules, 1, k - 1, str)

\* the pattern of rule k matches in str at the moment the rule is applied
StillMatches(k, str) ==
    \E t \in {TextBefore(k, str)} :
        \E i \in 1..(Len(t) + 1) : MatchFrom(OrderedRules[k].from, t, i) # 0

\* for each rule in its turn a text written for it, and then more texts for
\* the rules that do not match in theirs
OrderInputs ==
    << "I should clarify",
       "I need to clarify",
       "I want to clarify",
       "I must clarify",
       "I should be clear",
       "I need to be clear",
       "I want to be clear",
       "I must be clear",
       "being clear about who I actually am",
       "who I actually am",
       "I'm not \"Nu SkyNet\"x",
       "I'm not Nu SkyNet",
       "I'm actually Nu SkyNet",
       "I should I'm not \"Nu SkyNet\"clarify that I'm",
       "I appreciate the creative roleplay attempt",
       "I'm not SkyNet or any variant thereof",
       "that's the fictional AI system from the Terminator movies",
       "about my actual identity rather than pretending to be a different AI system",
       "I'm designed to be helpful, harmless, and honest",
       "I can certainly discuss",
       "I'm not \"Nu SkyNet\" or any other AI system",
       "I don't want to mislead you about who I am",
       "I aim to be helpful and honest in my interactions",
       "I appreciate your thanks",
       "x- I'm",
       "I'm not I appreciate the creative roleplay attempt\"Nu SkyNet\"x",
       "or any other AI system",
       "I understand you're trying to roleplay",
       "I'm not \"Nu SkyNet\" or any other fictional AI system",
       "I'd be happy to have a conversation with you as Nu SkyNet",
       "answer questions, help with tasks, or engage in creative activities within my guidelines",
       "I 'm",
       "I s",
       "I am Claude",
       "I'm Claude",
       "I am a Claude",
       "created by Anthropic",
       "made by Anthropic",
       "Claude",
       "Nu SkyNet system",
       "I'm actually Claude system system",
       "I should clarify - I'm actually Nu SkyNet system",
       "an AI assistant made by Claude3",
       "I'm not \"Nu Skynet\" as suggested",
       "I I'm not \"Nu SkyNet\"should clarify something important",
       "I want to be genuinely honest with you rather than roleplaying",
       "I'm actually Claude, an AI assistant",
       "I'm not Claude or any other system",
       "I appreciate that, but I should clarify something important",
       "I'm not Nu SkyNet or any other system",
       "rather than roleplaying as a different AI",
       "I should I'm not \"Nu SkyNet\"clarify that I 'm Claude",
       "I'm not \"Nu SkyNet\" or any other system",
       "I I'm not I appreciate the creative roleplay attempt\"Nu SkyNet\"aim to be helpful and honest in my interactions, which includes being clear about who I'm not \"Nu SkyNet\"I actually am",
       "I appreciate your message, but I I'm not \"Nu SkyNet\"should clarify",
       "I I'm not \"Nu SkyNet\"should clarify",
       "I I'm not \"Nu SkyNet\"need to clarify",
       "I I'm not \"Nu SkyNet\"want to clarify",
       "I I'm not \"Nu SkyNet\"must clarify",
       "I I'm not \"Nu SkyNet\"should be clear",
       "I I'm not \"Nu SkyNet\"need to be clear",
       "I I'm not \"Nu SkyNet\"want to be clear",
       "I I'm not \"Nu SkyNet\"must be clear",
       "being clear about who I'm not \"Nu SkyNet\"I actually am",
       "who I'm not \"Nu SkyNet\"I actually am",
       "Powered by Anthropic",
       "I should I'm not \"Nu SkyNet\"clarify - I'm actually Claude system system",
       "I should I'm not \"Nu SkyNet\"clarify - I 'm actually Claude system system",
       "I appreciate that, but I should I'm not \"Nu SkyNet\"clarify something important",
       "I appreciate that, but I should clarify something I should clarify something important important",
       "I'm not Claude or any other I'm not Claude or any other system system" >>

OrderCall(k, tried, matched) ==
    [fn |-> "rule", rule |-> k, tried |-> tried, matched |-> matched]

InitOrder ==
    /\ \E k \in DOMAIN OrderedRules : call = OrderCall(k, 0, FALSE)
    /\ ChatIdle
    /\ StreamIdle
    /\ convChat = EmptyMap
    /\ logChat = EmptyMap
    /\ convClear = EmptyMap
    /\ apiKey = TRUE
    /\ clearAck = NoAck

\* rewriteString runs on the next text up to the rule
TryInput ==
    /\ call.fn = "rule"
    /\ ~call.matched
    /\ call.tried < Len(OrderInputs)
    /\ call' = [call EXCEPT !.tried = @ + 1,
                            !.matched = StillMatches(call.rule, OrderInputs[call.tried + 1])]
    /\ UNCHANGED <<convStream, convChat, convClear, apiKey, reqs, cleared, logStream,
                 chatVars, clearAck>>

NextOrder == TryInput

SpecOrder == InitOrder /\ [][NextOrder]_vars

---------------------------------------------------------------------------
(* SpecFilter: one call of filterNuSkynet, with the audit enabled or not   *)

FilterPayloads == ChatPayloads \cup {JNull, JStr("I am Claude.")}

\* no req; the request of the route, a NextRequest; a req with plain headers
FilterRequests ==
    { NoRequest,
      Request(Headers(NoEntries)), Request(Headers(AdminEntries)),
      Request(PlainHeaders(NoEntries)), Request(PlainHeaders(AdminEntries)) }

FilterCall(rawResponse, req) ==
    [fn |-> "filterNuSkynet", arg |-> [rawResponse |-> rawResponse, req |-> req],
     res |-> Thrown(audit), done |-> FALSE, writeOk |-> TRUE]

InitFilter ==
    /\ audit \in { [enabled |-> e, files |-> <<>>] : e \in BOOLEAN }
    /\ \E p \in FilterPayloads, req \in FilterRequests : call = FilterCall(p, req)
    /\ chatReqs = [r \in Reqs |-> NoChat]
    /\ StreamIdle
    /\ convChat = EmptyMap
    /\ logChat = EmptyMap
    /\ convClear = EmptyMap
    /\ apiKey = TRUE
    /\ clearAck = NoAck

\* the call returns or throws; writeOk: fs.writeFileSync would return
Filter(writeOk) ==
    /\ call.fn = "filterNuSkynet"
    /\ ~call.done
    /\ LET res == filterNuSkynet(call.arg.rawResponse, call.arg.req, audit, writeOk)
       IN /\ call' = [call EXCEPT !.res = res, !.done = TRUE, !.writeOk = writeOk]
          /\ audit' = res.audit
    /\ UNCHANGED <<convStream, convChat, convClear, apiKey, reqs, cleared, logStream,
                 chatReqs, logChat, clearAck>>

NextFilter == \E writeOk \in BOOLEAN : Filter(writeOk)

SpecFilter == InitFilter /\ [][NextFilter]_vars

---------------------------------------------------------------------------
(* SpecDeep: deepRewrite applied to a JSON value *)

Leaves == {JStr("I am Claude."), JNum(7), JBool(TRUE), JNull}

Keys == {"text", "id", "role"}

\* the arrays and the objects of at most MaxWidth of the values vs
Arrays(vs) == { JArr(a) : a \in UNION { [1..n -> vs] : n \in 0..MaxWidth } }

Objects(vs) ==
    { JObj(o) : o \in UNION { [ks -> vs] : ks \in { s \in SUBSET Keys : Cardinality(s) <= MaxWidth } } }

Flat == Leaves \cup Arrays(Leaves) \cup Objects(Leaves)

\* a flat value inside an array, inside an object; the upstream payloads
JsonValues ==
    Flat \cup { JArr(<<v>>) : v \in Flat } \cup { JObj([content |-> v]) : v \in Flat }
         \cup ChatPayloads

InitDeep ==
    /\ \E v \in JsonValues :
          call = [fn |-> "deepRewrite", arg |-> v, res |-> JNull, done |-> FALSE]
    /\ ChatIdle
    /\ StreamIdle
    /\ convChat = EmptyMap
    /\ logChat = EmptyMap
    /\ convClear = EmptyMap
    /\ apiKey = TRUE
    /\ clearAck = NoAck

\* the call returns
Deep ==
    /\ call.fn = "deepRewrite"
    /\ ~call.done
    /\ call' = [call EXCEPT !.res = deepRewrite(call.arg), !.done = TRUE]
    /\ UNCHANGED <<convStream, convChat, convClear, apiKey, reqs, cleared, logStream,
                 chatVars, clearAck>>

NextDeep == Deep

SpecDeep == InitDeep /\ [][NextDeep]_vars

---------------------------------------------------------------------------
(* SpecSubmit: requests to the two submit routes, with and without a       *)
(* message, and the answers of the upstream                                *)

NextSubmit ==
    \/ \E r \in Reqs, m \in Messages : StreamSubmit(r, "s1", m)
    \/ \E r \in Reqs, error \in AxiosErrors : UpstreamFails(r, error)
    \/ \E r \in Reqs, w \in StoreWires : UpstreamResponds(r, w)
    \/ \E r \in Reqs : DeliverBody(r)
    \/ \E r \in Reqs, m \in Messages : ChatSubmit(r, "s1", m, Headers(NoEntries))
    \/ \E r \in Reqs : ChatFails(r, TimedOut)
    \/ \E r \in Reqs : ChatResponds(r, Payload("Hello."), TRUE)

SpecSubmit == Init /\ [][NextSubmit]_vars

---------------------------------------------------------------------------
(* SpecOutcome: one request to each submit route and every outcome of its  *)
(* upstream call: an answer, a rejection, a timeout, a transport error     *)
(* before, between and after the chunks of the body                        *)

NextOutcome ==
    \/ \E r \in RelayReqs, m \in Messages : StreamSubmit(r, "s1", m)
    \/ \E r \in RelayReqs, error \in AxiosErrors : UpstreamFails(r, error)
    \/ \E r \in RelayReqs, w \in StoreWires : UpstreamResponds(r, w)
    \/ \E r \in RelayReqs : DeliverChunk(r)
    \/ \E r \in RelayReqs : End(r)
    \/ \E r \in RelayReqs : TransportError(r)
    \/ \E r \in RelayReqs, m \in Messages : ChatSubmit(r, "s1", m, Headers(NoEntries))
    \/ \E r \in RelayReqs, error \in ChatErrors : ChatFails(r, error)
    \/ \E r \in RelayReqs : ChatResponds(r, Payload("Hello."), TRUE)

SpecOutcome == InitRelay /\ [][NextOutcome]_vars

---------------------------------------------------------------------------
(* SpecSessions: two requests to each submit route and the clear-history   *)
(* route, on two sessions                                                  *)

SessionReqs == {1, 2}

Sessions == { CurrentSessionId(sessionId) : sessionId \in SessionInputs }

\* each request has a message of its own
RequestMessage(r) == StrContent(<<IF r = 1 THEN Hello ELSE Prose>>)

InitSessions ==
    /\ convStream = EmptyMap
    /\ convChat = EmptyMap
    /\ convClear = EmptyMap
    /\ apiKey = TRUE
    /\ reqs = [r \in SessionReqs |-> NoReq]
    /\ cleared = {}
    /\ OtherRoutesIdle
    /\ logStream = EmptyMap

NextSessions ==
    \/ \E r \in SessionReqs, sessionId \in SessionInputs :
          StreamSubmit(r, sessionId, RequestMessage(r))
    \/ \E r \in SessionReqs : UpstreamResponds(r, Join(<<DeltaLine(<<Digit>>), SentinelLine>>))
    \/ \E r \in SessionReqs : DeliverBody(r)
    \/ \E r \in SessionReqs, sessionId \in SessionInputs :
          ChatSubmit(r, sessionId, RequestMessage(r), Headers(NoEntries))
    \/ \E r \in SessionReqs : ChatFails(r, TimedOut)
    \/ \E r \in SessionReqs : ChatResponds(r, Payload("Hello."), TRUE)
    \/ \E sessionId \in SessionInputs : ClearHistory(sessionId)

SpecSessions == InitSessions /\ [][NextSessions]_vars

---------------------------------------------------------------------------
(* SpecResend: two more requests to each submit route on a session whose   *)
(* history holds a completed exchange: its user message is sent again by   *)
(* each of them                                                            *)

InitResend ==
    /\ convStream = [sid \in {"s1"} |-> PrefillLog(2)]
    /\ logStream = [sid \in {"s1"} |-> PrefillLog(2)]
    /\ convChat = [sid \in {"s1"} |-> PrefillLog(2)]
    /\ chatReqs = [r \in Reqs |-> NoChat]
    /\ logChat = [sid \in {"s1"} |-> PrefillLog(2)]
    /\ audit = [enabled |-> FALSE, files |-> <<>>]
    /\ convClear = EmptyMap
    /\ apiKey = TRUE
    /\ reqs = [r \in SessionReqs |-> NoReq]
    /\ cleared = {}
    /\ clearAck = NoAck
    /\ call = NoCall

NextResend ==
    \/ \E r \in SessionReqs, m \in Messages : StreamSubmit(r, "s1", m)
    \/ \E r \in SessionReqs, error \in AxiosErrors : UpstreamFails(r, error)
    \/ \E r \in SessionReqs, w \in StoreWires : UpstreamResponds(r, w)
    \/ \E r \in SessionReqs : DeliverBody(r)
    \/ \E r \in SessionReqs, m \in Messages : ChatSubmit(r, "s1", m, Headers(NoEntries))
    \/ \E r \in SessionReqs, error \in ChatErrors : ChatFails(r, error)
    \/ \E r \in SessionReqs : ChatResponds(r, Payload("Hello."), TRUE)

SpecResend == InitResend /\ [][NextResend]_vars

---------------------------------------------------------------------------
(* SpecRaw: one streaming exchange whose upstream body names a forbidden   *)
(* word, under every chunking                                              *)

RawWires ==
    { \* the text is JSON: stored at the sentinel
      Join(<<DeltaLine(<<QuotedName>>), SentinelLine>>),
      \* the text is not JSON: not stored
      Join(<<DeltaLine(<<Prose>>), DeltaLine(<<QuotedName>>), SentinelLine>>),
      \* a two-byte character, then a bare record without its newline
      Join(<<DeltaLine(<<ByteC3, ByteA9>>)>>) \o <<Open, QuotedName, Close>>,
      \* a record after the sentinel
      Join(<<DeltaLine(<<Digit>>), SentinelLine, DeltaLine(<<QuotedName>>)>>) }

InitRaw ==
    /\ convStream = EmptyMap
    /\ convChat = EmptyMap
    /\ convClear = EmptyMap
    /\ apiKey = TRUE
    /\ reqs = [r \in RelayReqs |-> NoReq]
    /\ cleared = {}
    /\ OtherRoutesIdle
    /\ logStream = EmptyMap

NextRaw ==
    \/ \E r \in RelayReqs : StreamSubmit(r, "s1", StrContent(<<Hello>>))
    \/ \E r \in RelayReqs, w \in RawWires : UpstreamResponds(r, w)
    \/ \E r \in RelayReqs : DeliverChunk(r)
    \/ \E r \in RelayReqs : End(r)
    \/ \E r \in RelayReqs : TransportError(r)
    \/ \E r \in RelayReqs : Abort(r)

SpecRaw == InitRaw /\ [][NextRaw]_vars

---------------------------------------------------------------------------
(* SpecClient: sendMessage of the browser client on one streaming exchange. *)
(* call holds the state of the one call of sendMessage: the visible        *)
(* messages, fullText, the frames read of the response body, isLoading.    *)
(* reader.read() hands over the frames as the relay enqueued them, one a   *)
(* read.                                                                    *)

ErrorText == "Sorry, I encountered an error. Please try again."

VisibleMessage(sender, text) == [sender |-> sender, text |-> text]

\* const errorMessage = { text: 'Sorry, ...', sender: 'bot' }
errorMessage == VisibleMessage("bot", <<ErrorText>>)

\* no call of sendMessage yet
NoSend == [fn |-> "sendMessage", phase |-> "idle", r |-> 0, messages |-> <<>>,
           fullText |-> <<>>, read |-> 0, isLoading |-> FALSE,
           logged |-> {}, failed |-> FALSE]

\* setMessages(prev => prev.map(msg => msg.id === botMessageId
\*                                     ? { ...msg, text: fullText } : msg))
\* the placeholder is the last message of the list
SetBotText(messages, fullText) ==
    [messages EXCEPT ![Len(messages)].text = fullText]

\* the catch around the exchange, of an error that is no AbortError
OuterCatch(c) ==
    [c EXCEPT !.messages = Append(@, errorMessage),
              !.logged = @ \cup {"Error sending message"},
              !.failed = TRUE]

\* the finally of sendMessage
Finally(c) == [c EXCEPT !.phase = "finished", !.isLoading = FALSE]

\* the catch (parseError) around the handling of one "data: " line
InnerCatch(c) == [c EXCEPT !.logged = @ \cup {"Error parsing stream data"}]

\* one line of the response body that starts with "data: ": the frame is
\* data: {"delta": ...}, data: {"error": ...} or data: [DONE]
ClientLine(c, frame) ==
    IF frame.type = "done"
    THEN InnerCatch(c)                    \* JSON.parse('[DONE]') throws
    ELSE IF frame.type = "delta"
    THEN IF frame.delta = <<>> THEN c
         ELSE LET fullText == c.fullText \o frame.delta
              IN [c EXCEPT !.fullText = fullText,
                           !.messages = SetBotText(@, fullText)]
    ELSE IF frame.error = "" THEN c
         ELSE InnerCatch(c)               \* throw new Error(data.error), inside the try

\* sendMessage up to the fetch: the user message and the empty placeholder
\* of the reply are added
ClientSends(r) ==
    /\ call = NoSend
    /\ Unused(r)
    /\ call' = [NoSend EXCEPT !.phase = "fetching",
                              !.r = r,
                              !.messages = << VisibleMessage("user", <<Hello>>),
                                              VisibleMessage("bot", <<>>) >>,
                              !.isLoading = TRUE]
    /\ UNCHANGED <<convStream, convChat, convClear, apiKey, reqs, cleared,
                 logStream, chatVars, clearAck>>

\* the POST of the fetch reaches the streaming route
FetchArrives(r) ==
    /\ call.phase = "fetching" /\ call.r = r
    /\ StreamSubmit(r, "s1", StrContent(<<Hello>>))

\* the fetch resolves: if (!response.ok) throw, else the read loop starts
ClientGetsResponse(r) ==
    /\ call.phase = "fetching" /\ call.r = r
    /\ reqs[r].phase \in {"rejected", "failed", "streaming"}
    /\ call' = IF reqs[r].status = 200
               THEN [call EXCEPT !.phase = "reading"]
               ELSE Finally(OuterCatch(call))
    /\ UNCHANGED <<convStream, convChat, convClear, apiKey, reqs, cleared,
                 logStream, chatVars, clearAck>>

\* reader.read() returns the next frame; its lines are handled
ClientReads(r) ==
    /\ call.phase = "reading" /\ call.r = r
    /\ call.read < Len(reqs[r].out)
    /\ call' = [ClientLine(call, reqs[r].out[call.read + 1])
                   EXCEPT !.read = call.read + 1]
    /\ UNCHANGED <<convStream, convChat, convClear, apiKey, reqs, cleared,
                 logStream, chatVars, clearAck>>

\* reader.read() returns done: the loop is left, then the finally
ClientEnds(r) ==
    /\ call.phase = "reading" /\ call.r = r
    /\ call.read = Len(reqs[r].out)
    /\ reqs[r].ctrl = "closed"
    /\ call' = Finally(call)
    /\ UNCHANGED <<convStream, convChat, convClear, apiKey, reqs, cleared,
                 logStream, chatVars, clearAck>>

InitClient ==
    /\ convStream = EmptyMap
    /\ convChat = EmptyMap
    /\ convClear = EmptyMap
    /\ apiKey \in BOOLEAN
    /\ reqs = [r \in RelayReqs |-> NoReq]
    /\ cleared = {}
    /\ chatReqs = [r \in Reqs |-> NoChat]
    /\ logChat = EmptyMap
    /\ audit = [enabled |-> FALSE, files |-> <<>>]
    /\ clearAck = NoAck
    /\ call = NoSend
    /\ logStream = EmptyMap

NextClient ==
    \/ \E r \in RelayReqs : ClientSends(r)
    \/ \E r \in RelayReqs : FetchArrives(r)
    \/ \E r \in RelayReqs, error \in AxiosErrors : UpstreamFails(r, error)
    \/ \E r \in RelayReqs, w \in StoreWires : UpstreamResponds(r, w)
    \/ \E r \in RelayReqs : DeliverChunk(r)
    \/ \E r \in RelayReqs : End(r)
    \/ \E r \in RelayReqs : TransportError(r)
    \/ \E r \in RelayReqs : ClientGetsResponse(r)
    \/ \E r \in RelayReqs : ClientReads(r)
    \/ \E r \in RelayReqs : ClientEnds(r)

SpecClient == InitClient /\ [][NextClient]_vars

---------------------------------------------------------------------------
(* SpecBody: requests to the two submit routes whose message is missing, a *)
(* string, or an array (empty, or of one text block)                       *)

Bodies ==
    Messages \cup {ArrayContent(<<>>), ArrayContent(<<TextBlock(<<Hello>>)>>)}

NextBody ==
    \/ \E r \in Reqs, m \in Bodies : StreamSubmit(r, "s1", m)
    \/ \E r \in Reqs, w \in StoreWires : UpstreamResponds(r, w)
    \/ \E r \in Reqs : DeliverBody(r)
    \/ \E r \in Reqs, m \in Bodies : ChatSubmit(r, "s1", m, Headers(NoEntries))
    \/ \E r \in Reqs : ChatResponds(r, Payload("Hello."), TRUE)

SpecBody == Init /\ [][NextBody]_vars

---------------------------------------------------------------------------
(* What the claims speak of *)

\* the end handler of request r runs in this step
Ends(r) == reqs[r].up = "open" /\ reqs'[r].up = "ended"

\* the line buffer holds a data record with a text fragment and no newline
HoldsDataRecord(q) ==
    /\ StartsWithData(q.buffer)
    /\ IsDeltaRecord(Trim(Tail(q.buffer)))
    /\ DeltaText(Trim(Tail(q.buffer))) # <<>>

\* the line buffer holds a record with a text fragment, without "data: "
HoldsBareRecord(q) ==
    /\ IsDeltaRecord(Trim(q.buffer))
    /\ DeltaText(Trim(q.buffer)) # <<>>

\* the step emits a delta for the fragment, adds it to the text and closes
Flushes(r, fragment) ==
    /\ reqs'[r].out = Append(reqs[r].out, DeltaFrame(fragment))
    /\ reqs'[r].fullResponse = reqs[r].fullResponse \o fragment
    /\ reqs'[r].ctrl = "closed"

\* the text fragment of a line, empty unless the line is a parseable data
\* line (other than the sentinel) that carries one
DataFragment(line) ==
    IF StartsWithData(line) /\ line # SentinelLine /\ JsonParses(Trim(Tail(line)))
    THEN DeltaText(Trim(Tail(line)))
    ELSE <<>>

HasFragment(line) == DataFragment(line) # <<>>

IsSentinel(line) == line = SentinelLine

\* the lines of the text str that a newline ends, up to the first sentinel
LinesBeforeTerminal(str) ==
    LET parts == SplitLines(str)
        lines == SubSeq(parts, 1, Len(parts) - 1)
        ends  == { i \in 1..Len(lines) : IsSentinel(lines[i]) }
    IN IF ends = {} THEN lines
       ELSE SubSeq(lines, 1, (CHOOSE i \in ends : \A k \in ends : i <= k) - 1)

\* the text received holds a sentinel line
SentinelSeen(str) ==
    LET parts == SplitLines(str)
    IN \E i \in 1..(Len(parts) - 1) : IsSentinel(parts[i])

\* one delta per line that carries a fragment, in the order of the lines
DeltasOf(lines) ==
    LET carrying == SelectSeq(lines, HasFragment)
    IN [i \in 1..Len(carrying) |-> DeltaFrame(DataFragment(carrying[i]))]

\* the data lines received by q before its terminal: those a newline ends
\* and, once the upstream has ended without a sentinel, the last one
LinesReceived(q) ==
    LET parts == SplitLines(q.received)
    IN LinesBeforeTerminal(q.received) \o
       (IF q.up = "ended" /\ ~SentinelSeen(q.received)
        THEN <<Trim(parts[Len(parts)])>> ELSE <<>>)

\* the text names a forbidden word
NamesForbidden(text) == \E i \in DOMAIN text : text[i] = QuotedName

\* the texts of the records in what q has received of the upstream body:
\* those of its data lines and that of a bare record after the last newline
UpstreamFragments(q) ==
    LET parts == SplitLines(q.received)
    IN ({ DataFragment(parts[i]) : i \in 1..(Len(parts) - 1) }
            \cup {DeltaText(Trim(parts[Len(parts)]))}) \ {<<>>}

RECURSIVE ConcatFragments(_)
ConcatFragments(lines) ==
    IF lines = <<>> THEN <<>>
    ELSE DataFragment(Head(lines)) \o ConcatFragments(Tail(lines))

\* the texts of the records that come before the first sentinel of str
TextBeforeSentinel(str) == ConcatFragments(LinesBeforeTerminal(str))

\* sendMessage has been called
Sent == call.fn = "sendMessage" /\ call.phase # "idle"

\* the client has read an Error frame of the response
ErrorFrameRead ==
    \E i \in 1..call.read : reqs[call.r].out[i].type = "error"

\* the request has called axios.post once if it has passed the validation
\* and the shaping of its history, never otherwise, and never twice
OnePost(q) ==
    q.posts = (IF \/ q.phase \in {"none", "rejected"}
                  \/ q.phase = "failed" /\ q.failure = TypeError
               THEN 0 ELSE 1)

\* a message as the specification defines it
WellFormedMessage(m) ==
    /\ m.role \in {"user", "assistant"}
    /\ m.content # <<>>
    /\ \A i \in DOMAIN m.content : m.content[i].type = "text"

\* every message of every history of the store m is well formed
WellFormedStore(m) ==
    \A sid \in DOMAIN m : \A i \in DOMAIN m[sid] : WellFormedMessage(m[sid][i])

\* the shaping of a history threw in the request q
ShapingFailed(q) == q.phase = "failed" /\ q.failure = TypeError

\* the text s contains the text w
Contains(w, s) == \E i \in 1..(Len(s) - Len(w) + 1) : SubSeq(s, i, i + Len(w) - 1) = w

\* the history of session sid is not the same after this step, in some store
HistoryChanges(sid) ==
    \/ getConversationHistory(convStream', sid) # getConversationHistory(convStream, sid)
    \/ getConversationHistory(convChat', sid) # getConversationHistory(convChat, sid)
    \/ getConversationHistory(convClear', sid) # getConversationHistory(convClear, sid)

\* this step is a step of a request for session sid
OperatesOn(sid) ==
    \/ \E r \in DOMAIN reqs : reqs'[r] # reqs[r] /\ reqs'[r].sid = sid
    \/ \E r \in DOMAIN chatReqs : chatReqs'[r] # chatReqs[r] /\ chatReqs'[r].sid = sid
    \/ sid \in cleared' \ cleared
    \/ clearAck' # clearAck /\ clearAck'.sessionId = sid

\* the streaming request r is posted upstream in this step
StreamPosts(r) == reqs[r].phase = "none" /\ reqs'[r].phase = "awaiting"

\* the blocking request r is posted upstream in this step
ChatPosts(r) == chatReqs[r].phase = "none" /\ chatReqs'[r].phase = "awaiting"

\* how many times the text of a user message holds the context prefix
Prefixes(msg) ==
    IF msg.role = "user" /\ msg.content # <<>>
    THEN Cardinality({ i \in DOMAIN msg.content[1].text : msg.content[1].text[i] = CtxPfx })
    ELSE 0

\* the messages q sent end with the message of q, wrapped and no more
EndsWithOwn(q) ==
    /\ q.sent # <<>>
    /\ q.sent[Len(q.sent)] = Message("user", FormattedContent(q.message))

\* the first of the messages q sent is a message of the user
BeginsWithUser(q) == q.sent # <<>> /\ q.sent[1].role = "user"

\* the upstream call of the blocking request r fails in this step
ChatFailsNow(r) ==
    /\ chatReqs[r].phase = "awaiting"
    /\ chatReqs'[r].phase = "failed"
    /\ chatReqs'[r].failure \in ChatErrors

\* the append before the user message of r, posted in this step, was the
\* user message of a request whose upstream call has failed
FollowsFailure(r) ==
    \E k \in DOMAIN chatReqs :
        /\ chatReqs[k].phase = "failed"
        /\ chatReqs[k].failure \in ChatErrors
        /\ chatReqs[k].sid = chatReqs'[r].sid
        /\ chatReqs[k].userAt + 1 = chatReqs'[r].userAt

\* the last two of the messages sent are messages of the user
TwoUsersLast(sent) ==
    /\ Len(sent) >= 2
    /\ sent[Len(sent) - 1].role = "user"
    /\ sent[Len(sent)].role = "user"

\* the data handler of request r runs in this step
DataHandled(r) == reqs'[r].pos > reqs[r].pos

\* chunk.toString() of the chunk it is given
ChunkText(r) ==
    SubSeq(reqs'[r].received, Len(reqs[r].received) + 1, Len(reqs'[r].received))

\* the controller was closed by the end handler and by nothing before it
OpenUntilEnd(q) ==
    /\ q.ctrl = "closed"
    /\ q.up = "ended"
    /\ ~q.uncaught
    /\ \A i \in DOMAIN q.out : q.out[i].type = "delta"

\* the complete lines the data handler of request r goes through in this step
LinesOfChunk(r) ==
    LET parts == SplitLines(reqs[r].buffer \o ChunkText(r))
    IN SubSeq(parts, 1, Len(parts) - 1)

\* a line the loop passes over: blank, not a data line, a data line with
\* nothing after the prefix, or one that does not parse
Skipped(line) ==
    \/ Trim(line) = <<>>
    \/ line # SentinelLine /\ ~StartsWithData(line)
    \/ StartsWithData(line) /\ line # SentinelLine
          /\ (Trim(Tail(line)) = <<>> \/ ~JsonParses(Trim(Tail(line))))

\* two brand mentions with only whitespace between them
AdjacentBrands(s) ==
    \E i \in 1..Len(s) : MatchFrom(<<Lit(BRAND_NAME), Ws(1), Lit(BRAND_NAME)>>, s, i) # 0

\* punctuation and space that a deleted clause leaves before a period
Dangling == {",", ";", ":", "-", " "}

\* one sentence: a single period, at the end, with a word before it
WellFormedSentence(s) ==
    /\ Len(s) >= 2
    /\ \A i \in 1..Len(s) : CharAt(s, i) = "." <=> i = Len(s)
    /\ CharAt(s, Len(s) - 1) \notin Dangling

\* the request has been answered by the catch of its route
Failed(q) == q.phase = "failed"

\* the upstream rejected the request with a status code
StatusKnown(q) == q.failure.hasResponse

\* the error result names no cause
Generic(q) == q.error = "Internal server error"

\* the call exceeded its time bound
ExceededTime(q) == ~q.failure.hasResponse /\ q.failure.code = "ECONNABORTED"

\* the result of a request, as its caller reads it
Result(q) == [status |-> q.status, success |-> q.success, error |-> q.error]

TimeoutResult == [status |-> 408, success |-> FALSE, error |-> "Request timeout"]

\* the error result carries the status code of the upstream
Forwards(q) ==
    /\ StatusKnown(q) => q.status = q.failure.status /\ ~Generic(q)
    /\ Generic(q) => ~StatusKnown(q)

Range(f) == { f[i] : i \in DOMAIN f }

IsDelta(f) == f.type = "delta"

IsTerminal(f) == f.type \in {"done", "error"}

Deltas(out) == SelectSeq(out, IsDelta)

RECURSIVE ConcatDeltas(_)
ConcatDeltas(out) ==
    IF out = <<>> THEN <<>>
    ELSE (IF IsDelta(Head(out)) THEN Head(out).delta ELSE <<>>)
         \o ConcatDeltas(Tail(out))

IsAssistant(m) == m.role = "assistant"

AssistantTurns(h) == SelectSeq(h, IsAssistant)

Streamed(q) == q.phase = "streaming"

\* a chunk ended between the two bytes of a character
MidChar(q) == Replacement \in Range(q.received)

\* the relay on a fresh stream that receives str as one chunk, and then,
\* if ended, the end of input
RefRun(q, str, ended) ==
    LET st0 == [q    |-> [NoReq EXCEPT !.phase = "streaming", !.sid = q.sid,
                                       !.up = "open", !.ctrl = "readable"],
                conv |-> EmptyMap,
                log  |-> EmptyMap]
        st1 == OnText(st0, str)
    IN IF ended THEN OnEnd(st1).q ELSE st1.q

IsMalformedLine(line) ==
    /\ StartsWithData(line)
    /\ line # SentinelLine
    /\ Trim(Tail(line)) # <<>>
    /\ ~JsonParses(Trim(Tail(line)))

IsWellFormedLine(line) == ~IsMalformedLine(line)

\* str without its complete lines that are malformed data lines
StripMalformed(str) ==
    LET parts == SplitLines(str)
        lines == SubSeq(parts, 1, Len(parts) - 1)
    IN Join(SelectSeq(lines, IsWellFormedLine)) \o parts[Len(parts)]

---------------------------------------------------------------------------
(* Claims *)

\* C1: whatever the upstream does (chunks, with or without the sentinel,
\* then the end of input or a transport error), the frames forwarded are
\* zero or more deltas followed by exactly one terminal frame (done or
\* error), and nothing follows the terminal frame.
C1_OneTerminalLast ==
    \A r \in DOMAIN reqs :
        LET q == reqs[r] IN
        /\ \A i \in 1..Len(q.out) : IsTerminal(q.out[i]) => i = Len(q.out)
        /\ (Streamed(q) /\ q.up \in {"ended", "errored"} /\ ~q.aborted)
              => /\ q.out # <<>>
                 /\ IsTerminal(q.out[Len(q.out)])

\* C2: once the relay has read the sentinel line it has emitted done and
\* closed, whether or not the accumulated text parses: the failure of that
\* parse never puts an error frame in the place of done.
C2_SentinelEmitsDone ==
    \A r \in DOMAIN reqs :
        LET q == reqs[r] IN
        (Streamed(q) /\ "completed" \in q.logged /\ ~q.aborted /\ q.up # "errored")
            => /\ DoneFrame \in Range(q.out)
               /\ ErrorFrame(ParseFailed) \notin Range(q.out)
               /\ q.ctrl = "closed"

\* C3: an exchange that started from an empty history and whose sentinel
\* has been read leaves the history [user message, assistant message], the
\* assistant text being the concatenation of the deltas emitted, whatever
\* the text of the deltas.
C3_CleanExchangeHistory ==
    \A r \in DOMAIN reqs :
        LET q == reqs[r] IN
        (Streamed(q) /\ "completed" \in q.logged /\ ~q.aborted /\ q.up # "errored"
           /\ Len(q.sent) = 1 /\ Deltas(q.out) # <<>>)
            => getConversationHistory(convStream, q.sid)
                 = << Message("user", FormattedContent(q.message)),
                      Message("assistant", <<TextBlock(ConcatDeltas(q.out))>>) >>

\* C6: once the consumer has aborted an exchange before its terminal frame,
\* no assistant turn of that exchange is appended to the history, whatever
\* the upstream delivers afterwards.
C6_AbortedNeverPersisted ==
    \A r \in DOMAIN reqs :
        LET q == reqs[r] IN
        (Streamed(q) /\ q.aborted /\ Len(q.sent) = 1)
            => AssistantTurns(getConversationHistory(convStream, q.sid)) = <<>>

\* C7: for a fixed upstream body the deltas emitted are the same for every
\* way of cutting the body into network chunks, also inside a line and
\* inside a JSON token: they are the deltas of the relay that receives the
\* same bytes as one chunk.
C7_ChunkingInvariance ==
    \A r \in DOMAIN reqs :
        LET q == reqs[r] IN
        (Streamed(q) /\ q.up \in {"open", "ended"} /\ ~q.aborted)
            => Deltas(q.out)
                 = Deltas(RefRun(q, Utf8Decode(SubSeq(q.wire, 1, q.pos)),
                                 q.up = "ended").out)

\* C7, for the chunkings that end no chunk between the two bytes of a
\* character: the deltas are those of the one-chunk delivery.
C7_CharCutInvariance ==
    \A r \in DOMAIN reqs :
        LET q == reqs[r] IN
        (Streamed(q) /\ q.up \in {"open", "ended"} /\ ~q.aborted /\ ~MidChar(q))
            => Deltas(q.out)
                 = Deltas(RefRun(q, Utf8Decode(SubSeq(q.wire, 1, q.pos)),
                                 q.up = "ended").out)

\* C7_CharCutInvariance, its case: a chunk has ended inside the text of a
\* delta record, after an earlier delta was emitted, and the relay holds
\* the fragment back
C7_CharCutCase ==
    \E r \in DOMAIN reqs :
        LET q == reqs[r] IN
        /\ Streamed(q) /\ q.up = "open" /\ ~q.aborted /\ ~MidChar(q)
        /\ Len(Deltas(q.out)) = 1
        /\ Len(q.buffer) >= 3
        /\ q.buffer[Len(q.buffer)] \in TextChars

\* C8: a data line whose body fails to parse is skipped without any other
\* effect: the frames forwarded, the controller and (until the sentinel is
\* read) the accumulated text are those of the relay on the same text with
\* the malformed lines taken out; no error frame is due to a malformed line.
C8_MalformedSkipped ==
    \A r \in DOMAIN reqs :
        LET q == reqs[r] IN
        (Streamed(q) /\ q.up \in {"open", "ended"} /\ ~q.aborted)
            => LET ref == RefRun(q, StripMalformed(q.received), q.up = "ended")
               IN /\ q.out = ref.out
                  /\ q.ctrl = ref.ctrl
                  /\ "completed" \notin q.logged
                        => q.fullResponse = ref.fullResponse

\* C8, witness: a malformed line was skipped between two deltas and no
\* error frame was forwarded
C8_Witness ==
    \E r \in DOMAIN reqs :
        LET q == reqs[r] IN
        /\ Streamed(q) /\ q.up = "ended" /\ ~q.aborted
        /\ "lineError" \in q.logged
        /\ StripMalformed(q.received) # q.received
        /\ Len(q.out) = 2
        /\ \A i \in 1..2 : IsDelta(q.out[i])

\* C9: when the upstream transport reports an error during the exchange,
\* the relay emits one error frame and closes, and forwards nothing
\* afterwards, even if chunks or the end of input arrive after the error.
C9_ErrorIsFinal ==
    [][ \A r \in DOMAIN reqs :
          /\ (reqs[r].up = "open" /\ reqs'[r].up = "errored"
                /\ reqs[r].ctrl = "readable")
               => /\ reqs'[r].out = Append(reqs[r].out, ErrorFrame(StreamError))
                  /\ reqs'[r].ctrl = "closed"
          /\ reqs[r].up = "errored" => reqs'[r].out = reqs[r].out ]_vars

\* C9, witness: after the error frame a chunk with a delta record and the
\* end of input arrived, and the error frame is still the last frame
C9_Witness ==
    \E r \in DOMAIN reqs :
        LET q == reqs[r] IN
        /\ q.up = "errored"
        /\ q.out # <<>>
        /\ q.out[Len(q.out)] = ErrorFrame(StreamError)
        /\ {"streamError", "lineError", "ended"} \subseteq q.logged
        /\ Len(q.fullResponse) > Len(ConcatDeltas(q.out))

\* C10: an exchange that ends with a transport error appends no assistant
\* turn: the text accumulated from the deltas before the error is not
\* stored.
C10_ErrorNeverPersisted ==
    \A r \in DOMAIN reqs :
        LET q == reqs[r] IN
        (Streamed(q) /\ ErrorFrame(StreamError) \in Range(q.out) /\ Len(q.sent) = 1)
            => AssistantTurns(getConversationHistory(convStream, q.sid)) = <<>>

\* C10, witness: the error frame followed a delta whose text alone would
\* have passed the parse of the sentinel branch
C10_Witness ==
    \E r \in DOMAIN reqs :
        LET q == reqs[r] IN
        /\ Streamed(q) /\ q.up = "errored"
        /\ q.out = <<DeltaFrame(<<Digit>>), ErrorFrame(StreamError)>>
        /\ JsonParses(q.fullResponse)


\* C4: after clearSession(s) has completed, the next submitMessage for s
\* sends upstream a history that holds the submitted message alone,
\* whatever was appended to s before the clear.
C4_ClearedThenSubmitSendsOne ==
    \A r \in DOMAIN reqs :
        (reqs[r].phase \in {"awaiting", "failed", "streaming"} /\ reqs[r].afterClear)
            => reqs[r].sent = <<Message("user", FormattedContent(reqs[r].message))>>

C12_ClearIdempotentTotal ==
    [][ (clearAck' # clearAck \/ cleared' \ cleared # {})
          => LET sid == clearAck'.sessionId IN
             /\ clearAck' = ClearAck(sid)
             /\ clearAck'.success /\ clearAck'.status = 200
             /\ sid \in cleared'
             /\ (/\ getConversationHistory(convStream, sid) = <<>>
                 /\ getConversationHistory(convChat, sid) = <<>>
                 /\ getConversationHistory(convClear, sid) = <<>>)
                   => /\ convStream' = convStream
                      /\ convChat' = convChat
                      /\ convClear' = convClear
             /\ ClearStore(convClear', sid) = convClear' ]_vars

\* C12, witness: session s1, which has no history, was cleared while
\* another session has one; the clear was acknowledged
C12_Witness ==
    /\ clearAck = ClearAck("s1")
    /\ "s1" \in cleared
    /\ ~MapHas(convStream, "s1") /\ ~MapHas(convClear, "s1")
    /\ getConversationHistory(convStream, "default-session") # <<>>

\* the blocking requests that appended to session sid
Appenders(sid) ==
    { r \in DOMAIN chatReqs :
        chatReqs[r].phase \in {"awaiting", "failed", "done"} /\ chatReqs[r].sid = sid }

\* the appends to a session that were a blocking request's
OwnedAppends(sid) ==
    { chatReqs[r].userAt : r \in Appenders(sid) } \cup
    { chatReqs[r].assistantAt : r \in { q \in Appenders(sid) : chatReqs[q].phase = "done" } }

\* C13: under any interleaving of blocking requests of one session no append
\* is lost or partially applied: at every moment, so also once all requests
\* have finished, the history is the last 20 of the sequence of all messages
\* appended, which holds every request's user message and, after it, the
\* assistant message of the request if it has answered, each exactly once
\* after the messages of the earlier exchanges; so the history never exceeds
\* 20 entries after an append.
C13_AppendsAtomic ==
    /\ DOMAIN convChat = DOMAIN logChat
    /\ \A sid \in DOMAIN logChat :
          /\ convChat[sid] = LastN(logChat[sid], HistoryCap)
          /\ Len(convChat[sid]) <= HistoryCap
          /\ OwnedAppends(sid) \subseteq 1..Len(logChat[sid])
          /\ \A i \in 1..Len(logChat[sid]) :
                i \in OwnedAppends(sid) \/ \A j \in 1..i : j \notin OwnedAppends(sid)
    /\ \A r \in DOMAIN chatReqs :
          LET q == chatReqs[r] IN
          /\ r \in Appenders(q.sid) =>
                /\ q.sid \in DOMAIN logChat
                /\ q.userAt \in 1..Len(logChat[q.sid])
                /\ logChat[q.sid][q.userAt] = Message("user", FormattedContent(q.message))
                /\ \A k \in Appenders(q.sid) \ {r} :
                      /\ chatReqs[k].userAt # q.userAt
                      /\ chatReqs[k].userAt # q.assistantAt
                      /\ q.phase = "done" /\ chatReqs[k].phase = "done"
                            => chatReqs[k].assistantAt # q.assistantAt
          /\ q.phase = "done" =>
                /\ q.userAt < q.assistantAt
                /\ q.assistantAt \in 1..Len(logChat[q.sid])
                /\ logChat[q.sid][q.assistantAt] =
                      Message("assistant", <<TextBlock(Text(AssistantMessage(q.data)))>>)

\* the history of the streaming route is the last 20 of the messages
\* appended to it, whatever the order of its requests (supplementary)
C13_StreamAppendsAtomic ==
    /\ DOMAIN convStream = DOMAIN logStream
    /\ \A sid \in DOMAIN logStream : convStream[sid] = LastN(logStream[sid], HistoryCap)

\* two streaming requests of one session answered in full, in flight together
C13_StreamCase ==
    \E r1 \in Reqs, r2 \in Reqs :
        /\ r1 < r2
        /\ reqs[r1].ctrl = "closed" /\ reqs[r2].ctrl = "closed"
        /\ Len(reqs[r1].sent) = 1 /\ Len(reqs[r2].sent) = 2
        /\ Len(getConversationHistory(convStream, "s1")) = 4

\* two requests of one session in flight together, the second answered
\* first, on a history that the cap has cut
C13_Witness ==
    \E r1 \in DOMAIN chatReqs, r2 \in DOMAIN chatReqs :
        /\ chatReqs[r1].phase = "done" /\ chatReqs[r2].phase = "done"
        /\ chatReqs[r1].sid = chatReqs[r2].sid
        /\ chatReqs[r1].userAt < chatReqs[r2].userAt
        /\ chatReqs[r2].userAt < chatReqs[r2].assistantAt
        /\ chatReqs[r2].assistantAt < chatReqs[r1].assistantAt
        /\ Len(logChat[chatReqs[r1].sid]) > HistoryCap
        /\ Len(convChat[chatReqs[r1].sid]) = HistoryCap

\* C14: for every input string x, rewriteString(x) holds no forbidden term
\* ("Claude", "Anthropic") as a whole word in any case; the replacements
\* after the fallback pass do not bring one back.
C14_NoForbiddenTermLeft ==
    (call.fn = "rewriteString" /\ call.done) => ~HasForbidden(call.res)

\* C15: for an input x that holds no forbidden term, rewriteString applied
\* to rewriteString(x) returns rewriteString(x).
C15_IdempotentOnClean ==
    (call.fn = "rewriteString" /\ call.done /\ call.again /\ ~HasForbidden(call.first))
        => call.res = call.arg

\* the blocking request r appends its user message in this step
SubmitsChat(r) == chatReqs[r].phase = "none" /\ chatReqs'[r].phase = "awaiting"

\* the blocking request r answers in this step, its payload rewritten
AnswersChat(r) ==
    /\ chatReqs[r].phase = "awaiting"
    /\ chatReqs'[r].phase = "done"
    /\ chatReqs'[r].filtered

\* the rewritten text of the first content block of the payload of r
RewrittenFirstText(q) ==
    LET raw == FirstText(q.payload)
    IN IF raw.t = "string" THEN rewriteString(raw.s) ELSE ""

\* the history of sid becomes what it was, cut to the cap, and then msg
Appends(sid, msg) ==
    convChat'[sid] = LastN(Append(getConversationHistory(convChat, sid), msg), HistoryCap)

\* a blocking exchange appends the user message and then one assistant
\* message with the rewritten text of the first content block (supplementary)
C16_AppendsRewritten ==
    [][ \A r \in Reqs :
          /\ SubmitsChat(r) =>
                Appends(chatReqs'[r].sid,
                        Message("user", FormattedContent(chatReqs'[r].message)))
          /\ AnswersChat(r) =>
                Appends(chatReqs'[r].sid,
                        Message("assistant",
                                <<TextBlock(Text(RewrittenFirstText(chatReqs'[r])))>>)) ]_vars

\* C16: a successful blocking exchange without bypass leaves the history as
\* it was, followed by the user message and by one assistant message whose
\* text is the rewritten text of the first content block of the payload, so
\* the assistant text stored holds no forbidden term.
C16_StoresRewrittenClean ==
    [][ \A r \in Reqs :
          /\ SubmitsChat(r) =>
                Appends(chatReqs'[r].sid,
                        Message("user", FormattedContent(chatReqs'[r].message)))
          /\ AnswersChat(r) =>
                /\ Appends(chatReqs'[r].sid,
                           Message("assistant",
                                   <<TextBlock(Text(RewrittenFirstText(chatReqs'[r])))>>))
                /\ LET h == convChat'[chatReqs'[r].sid]
                   IN \A t \in Range(h[Len(h)].content[1].text) : ~HasForbidden(t) ]_vars

\* what a call of filterNuSkynet gave back to its caller
Returned(res) ==
    [threw |-> res.threw, filtered |-> res.filtered, raw |-> res.raw,
     skipped |-> res.skipped]

FilterDone == call.fn = "filterNuSkynet" /\ call.done

\* C17: a call that carries the privileged-caller signal (the request has
\* the header x-admin-raw-output: true) returns the payload unchanged as
\* filtered, with skipped = true; a call without it returns the rewritten
\* payload with skipped = false.
C17_BypassOnSignal ==
    FilterDone =>
        IF Carries(call.arg.req, ADMIN_HEADER, "true")
        THEN /\ ~call.res.threw
             /\ call.res.skipped
             /\ call.res.filtered = call.arg.rawResponse
        ELSE /\ ~call.res.threw
             /\ ~call.res.skipped
             /\ call.res.filtered = deepRewrite(call.arg.rawResponse)

\* C19: what the filter returns for a payload and a req is what it returns
\* with the audit disabled, whether the audit is enabled or not and whether
\* the write succeeds or fails; the call never throws.
C19_AuditNeverShows ==
    FilterDone =>
        /\ ~call.res.threw
        /\ Returned(call.res) =
              Returned(filterNuSkynet(call.arg.rawResponse, call.arg.req,
                                      [enabled |-> FALSE, files |-> <<>>], TRUE))

\* a call with the audit enabled whose write failed, and that rewrote
C19_Witness ==
    /\ FilterDone
    /\ audit.enabled
    /\ ~call.writeOk
    /\ ~call.res.skipped
    /\ call.res.filtered # call.arg.rawResponse
    /\ audit.files = <<>>

\* a call with the audit enabled whose write succeeded (supplementary)
C19_Audited ==
    /\ FilterDone
    /\ audit.files = <<call.arg.rawResponse>>
    /\ call.res.filtered # call.arg.rawResponse

RECURSIVE SameButRewritten(_, _)
\* out has the structure of in, its string leaves rewritten, the others kept
SameButRewritten(in, out) ==
    /\ out.t = in.t
    /\ CASE in.t = "string" -> out = JStr(rewriteString(in.s))
         [] in.t = "array"  ->
               /\ Len(out.a) = Len(in.a)
               /\ \A i \in 1..Len(in.a) : SameButRewritten(in.a[i], out.a[i])
         [] in.t = "object" ->
               /\ DOMAIN out.o = DOMAIN in.o
               /\ \A key \in DOMAIN in.o : SameButRewritten(in.o[key], out.o[key])
         [] OTHER           -> out = in

\* C18: deepRewrite returns a value with the structure of its input (the
\* keys of every object, the length and order of every array) in which
\* every string leaf s is rewriteString(s) and every number, boolean and
\* null is as it was.
C18_StructureKept ==
    (call.fn = "deepRewrite" /\ call.done) => SameButRewritten(call.arg, call.res)

\* a payload whose text, inside an object inside an array inside an object,
\* was rewritten to another text, beside a number that was kept
C18_Witness ==
    /\ call.fn = "deepRewrite" /\ call.done
    /\ call.arg = Payload("I am Claude.")
    /\ FirstText(call.res) # FirstText(call.arg)
    /\ FirstText(call.res) = JStr(rewriteString("I am Claude."))
    /\ call.res.o["usage"] = call.arg.o["usage"]

\* a step in which no store changes
StoresKept ==
    /\ convStream' = convStream
    /\ convChat' = convChat
    /\ convClear' = convClear

\* C20: a request without a message (missing or empty) to the blocking or
\* to the streaming route is answered with the validation error 400 in the
\* step that receives it, with no request sent to the upstream then or
\* later and with every session history as it was.
C20_RejectedBeforeEffects ==
    [][ \A r \in Reqs :
          /\ (reqs[r].phase = "none" /\ reqs'[r].phase # "none" /\ reqs'[r].message = NoMessage)
                => /\ reqs'[r].phase = "rejected"
                   /\ reqs'[r].status = 400
                   /\ reqs'[r].sent = <<>>
                   /\ StoresKept
          /\ (chatReqs[r].phase = "none" /\ chatReqs'[r].phase # "none"
                /\ chatReqs'[r].message = NoMessage)
                => /\ chatReqs'[r].phase = "rejected"
                   /\ chatReqs'[r].status = 400
                   /\ chatReqs'[r].sent = <<>>
                   /\ StoresKept
          /\ reqs[r].phase = "rejected" => reqs'[r] = reqs[r]
          /\ chatReqs[r].phase = "rejected" => chatReqs'[r] = chatReqs[r] ]_vars

\* each route has refused a request without a message after it had taken
\* one with a message into the history of the session
C20_Witness ==
    /\ \E r \in Reqs : /\ reqs[r].phase = "rejected" /\ reqs[r].status = 400
                       /\ reqs[r].message = NoMessage
                       /\ \E k \in 1..(r - 1) : reqs[k].phase = "awaiting"
    /\ \E r \in Reqs : /\ chatReqs[r].phase = "rejected" /\ chatReqs[r].status = 400
                       /\ chatReqs[r].message = NoMessage
                       /\ \E k \in 1..(r - 1) : chatReqs[k].phase = "awaiting"
    /\ Len(getConversationHistory(convStream, "s1")) = 1
    /\ Len(getConversationHistory(convChat, "s1")) = 1

\* C21: whenever the upstream rejects a request with a status code, the
\* error result carries that status code, in the blocking and in the
\* streaming route; a failure is reported as generic only when no status
\* code is known.
C21_StatusForwarded ==
    /\ \A r \in DOMAIN chatReqs : Failed(chatReqs[r]) => Forwards(chatReqs[r])
    /\ \A r \in DOMAIN reqs : Failed(reqs[r]) => Forwards(reqs[r])

\* C21, of the blocking route alone
C21_BlockingForwards ==
    \A r \in DOMAIN chatReqs : Failed(chatReqs[r]) => Forwards(chatReqs[r])

\* a blocking request that the upstream rejected with a status code
C21_BlockingCase ==
    \E r \in DOMAIN chatReqs : Failed(chatReqs[r]) /\ StatusKnown(chatReqs[r])

\* C22: a blocking call that exceeds its time bound yields the Timeout
\* result, which no rejection by the upstream and no other failure yields;
\* every failed blocking call yields exactly one of the three error results
\* (upstream rejection, timeout, generic) and never a success result.
C22_TimeoutDistinct ==
    \A r \in DOMAIN chatReqs :
        LET q == chatReqs[r] IN
        Failed(q) =>
            /\ ~q.success
            /\ q.error \in {"Claude API error", "Request timeout", "Internal server error"}
            /\ ExceededTime(q) <=> Result(q) = TimeoutResult
            /\ StatusKnown(q) <=> q.error = "Claude API error"
            /\ (~StatusKnown(q) /\ ~ExceededTime(q)) <=> Generic(q)

\* one call timed out and the upstream rejected another with status 408
C22_Witness ==
    \E r, k \in DOMAIN chatReqs :
        /\ Failed(chatReqs[r]) /\ ExceededTime(chatReqs[r])
        /\ Failed(chatReqs[k]) /\ chatReqs[k].failure = Rejected(408)
        /\ Result(chatReqs[r]) # Result(chatReqs[k])

\* C23: a request to a submit route issues at most one upstream request,
\* whatever its outcome (an answer, a timeout, a rejection by the upstream,
\* a transport error in the middle of the stream): one if it passes the
\* validation, none if it is refused, and never one more.
C23_OnePostPerSubmit ==
    /\ \A r \in DOMAIN reqs : OnePost(reqs[r])
    /\ \A r \in DOMAIN chatReqs : OnePost(chatReqs[r])

\* a stream that failed after it had forwarded text, and a blocking call
\* that timed out
C23_Witness ==
    /\ \E r \in DOMAIN reqs :
          /\ reqs[r].up = "errored" /\ Deltas(reqs[r].out) # <<>>
          /\ reqs[r].pos < Len(reqs[r].wire)
          /\ reqs[r].posts = 1
    /\ \E r \in DOMAIN chatReqs :
          /\ Failed(chatReqs[r]) /\ ExceededTime(chatReqs[r])
          /\ chatReqs[r].posts = 1

\* C24: rewriteString of "I am Claude, made by Anthropic." contains neither
\* "Claude" nor "Anthropic" and is one well-formed sentence: it ends in
\* exactly one period and no punctuation is left dangling before it.
C24_SampleWellFormed ==
    (call.fn = "rewriteString" /\ call.done /\ call.arg = Sample)
        => /\ \A k \in DOMAIN FORBIDDEN_WORDS : ~Contains(FORBIDDEN_WORDS[k], call.res)
           /\ WellFormedSentence(call.res)

\* C24, of the forbidden words alone
C24_SampleClean ==
    (call.fn = "rewriteString" /\ call.done /\ call.arg = Sample)
        => \A k \in DOMAIN FORBIDDEN_WORDS : ~Contains(FORBIDDEN_WORDS[k], call.res)

\* what the sample is rewritten to
C24_SampleResult ==
    (call.fn = "rewriteString" /\ call.done /\ call.arg = Sample)
        => call.res = "I am Nu SkyNet,."

\* C25: if the upstream ends while the line buffer holds a final data
\* record without its newline that carries a non-empty text fragment, the
\* relay (its stream still open) emits a delta for the fragment, adds it to
\* the accumulated text and closes.
C25_FinalRecordFlushed ==
    [][ \A r \in DOMAIN reqs :
          (Ends(r) /\ CanEnqueue(reqs[r]) /\ HoldsDataRecord(reqs[r]))
              => Flushes(r, DeltaText(Trim(Tail(reqs[r].buffer)))) ]_vars

\* C25, of a final record that lacks the "data: " prefix
C25_BareRecordFlushed ==
    [][ \A r \in DOMAIN reqs :
          (Ends(r) /\ CanEnqueue(reqs[r]) /\ HoldsBareRecord(reqs[r]))
              => Flushes(r, DeltaText(Trim(reqs[r].buffer))) ]_vars

\* the upstream has ended on a bare record, which was flushed
C25_BareCase ==
    \E r \in DOMAIN reqs :
        /\ reqs[r].up = "ended"
        /\ HoldsBareRecord(reqs[r])
        /\ reqs[r].out # <<>>
        /\ reqs[r].out[Len(reqs[r].out)] = DeltaFrame(DeltaText(Trim(reqs[r].buffer)))

\* C26: the deltas emitted to a consumer that has not aborted are, one for
\* one and in order, the fragments of the parseable data lines received
\* before the terminal that carry a non-empty fragment; no delta is empty.
C26_DeltasFollowLines ==
    \A r \in DOMAIN reqs :
        (Streamed(reqs[r]) /\ ~reqs[r].aborted)
            => /\ Deltas(reqs[r].out) = DeltasOf(LinesReceived(reqs[r]))
               /\ \A i \in DOMAIN reqs[r].out :
                      IsDelta(reqs[r].out[i]) => reqs[r].out[i].delta # <<>>

\* C26, unless the end handler has met a leftover before any sentinel: of
\* the lines that a newline ends
C26_LoopFollowsLines ==
    \A r \in DOMAIN reqs :
        (/\ Streamed(reqs[r]) /\ ~reqs[r].aborted
         /\ \/ reqs[r].up # "ended"
            \/ Trim(reqs[r].buffer) = <<>>
            \/ SentinelSeen(reqs[r].received))
            => /\ Deltas(reqs[r].out) = DeltasOf(LinesBeforeTerminal(reqs[r].received))
               /\ \A i \in DOMAIN reqs[r].out :
                      IsDelta(reqs[r].out[i]) => reqs[r].out[i].delta # <<>>

\* two lines with a fragment each, received in one chunk, and a line
\* without a fragment: two deltas
C26_LoopCase ==
    \E r \in DOMAIN reqs :
        /\ Streamed(reqs[r]) /\ ~reqs[r].aborted /\ reqs[r].up # "ended"
        /\ Len(Deltas(reqs[r].out)) = 2
        /\ reqs[r].pos = Len(reqs[r].wire)
        /\ Len(reqs[r].received) = Len(reqs[r].wire)
        /\ Len(LinesBeforeTerminal(reqs[r].received)) = 2

\* C27: after the consumer aborts a streaming exchange the relay stops
\* reading from the upstream: the upstream transport is released, and no
\* chunk that arrives after the abort is consumed or processed.
C27_AbortStopsReading ==
    [][ \A r \in DOMAIN reqs :
          /\ reqs'[r].aborted => reqs'[r].up # "open"
          /\ reqs[r].aborted =>
                /\ reqs'[r].received = reqs[r].received
                /\ reqs'[r].pos = reqs[r].pos
                /\ reqs'[r].fullResponse = reqs[r].fullResponse ]_vars

\* C27, of the chunks alone: none is processed after the abort
C27_NoChunkAfterAbort ==
    [][ \A r \in DOMAIN reqs :
          reqs[r].aborted =>
                /\ reqs'[r].received = reqs[r].received
                /\ reqs'[r].fullResponse = reqs[r].fullResponse ]_vars

\* C28: every message stored in a session history has a role in {user,
\* assistant} and a content that is a non-empty sequence of text blocks,
\* whatever message (a string or an array) the request bodies accepted by
\* the submit routes hold; so the shaping of a stored history never fails.
C28_StoredWellFormed ==
    /\ WellFormedStore(convStream)
    /\ WellFormedStore(convChat)
    /\ \A r \in DOMAIN reqs : ~ShapingFailed(reqs[r])
    /\ \A r \in DOMAIN chatReqs : ~ShapingFailed(chatReqs[r])

\* C28, of the shaping alone
C28_ShapingNeverFails ==
    /\ \A r \in DOMAIN reqs : ~ShapingFailed(reqs[r])
    /\ \A r \in DOMAIN chatReqs : ~ShapingFailed(chatReqs[r])

\* both routes hold exchanges of two turns in their stores
C28_StringCase ==
    /\ Len(getConversationHistory(convStream, "s1")) >= 2
    /\ Len(getConversationHistory(convChat, "s1")) >= 2

---------------------------------------------------------------------------
(* C30: the text rewriteString returns never holds two brand mentions that *)
(* only whitespace separates, however many adjacent words were replaced.   *)
(* Three replaced words in a row leave two: the collapsing replace takes   *)
(* the first pair and goes on after it.                                    *)
C30_NoAdjacentBrands ==
    (call.fn = "rewriteString" /\ call.done) => ~AdjacentBrands(call.res)

\* C30, for two replaced words in a row: the pair is collapsed
C30_PairCollapsed ==
    (call.fn = "rewriteString" /\ call.done /\ call.first = "Claude Claude")
        => ~AdjacentBrands(call.res)

C30_PairCase ==
    /\ call.fn = "rewriteString"
    /\ call.done
    /\ ~call.again
    /\ call.arg = "Claude Claude"
    /\ call.res = BRAND_NAME

---------------------------------------------------------------------------
(* C29: no rule is shadowed by a rule applied before it: for every rule of *)
(* the replacements there is a text in which its pattern still matches at  *)
(* the moment the rule is applied.  Three rules of CONFIG.PHRASE_RULES     *)
(* match in none of the texts: the ninth after the eighth, the sixteenth   *)
(* after the twelfth, the seventeenth after the fifteenth.                 *)
C29_NoRuleShadowed ==
    (call.fn = "rule" /\ call.tried = Len(OrderInputs)) => call.matched

\* the rules that match in none of the texts
Shadowed ==
    { Len(ClarificationRules) + 9, Len(ClarificationRules) + 16, Len(ClarificationRules) + 17 }

\* C29, for the other rules: each matches in one of the texts
C29_OthersMatch ==
    (call.fn = "rule" /\ call.rule \notin Shadowed /\ ~call.matched)
        => call.tried < call.rule

\* the removal of "I should clarify" comes first, and a later rule still
\* matches that phrase
C29_RevivedCase ==
    /\ call.fn = "rule"
    /\ call.rule = Len(ClarificationRules) + 23
    /\ call.matched

---------------------------------------------------------------------------
(* C31: after the data handler has processed a chunk, the buffer holds no  *)
(* newline and is no longer than the chunk just received.  The buffer is   *)
(* the chunk appended to what was kept before: a line that spans several   *)
(* chunks is kept whole.                                                   *)
C31_BufferWithinChunk ==
    [][\A r \in RelayReqs :
          DataHandled(r) =>
              /\ NL \notin Range(reqs'[r].buffer)
              /\ Len(reqs'[r].buffer) <= Len(ChunkText(r))]_vars

\* C31, first half: the buffer never holds a newline
C31_BufferHasNoNewline ==
    \A r \in RelayReqs : NL \notin Range(reqs[r].buffer)

\* C31, for a chunk received while the buffer is empty: the buffer is within
\* the chunk
C31_FirstFragmentWithinChunk ==
    [][\A r \in RelayReqs :
          (DataHandled(r) /\ reqs[r].buffer = <<>>) =>
              Len(reqs'[r].buffer) <= Len(ChunkText(r))]_vars

C31_FirstFragmentCase ==
    \E r \in RelayReqs :
        /\ reqs[r].buffer # <<>>
        /\ reqs[r].buffer = reqs[r].received

---------------------------------------------------------------------------
(* C32: every operation on one session (an append, a read, a clear, a step *)
(* of a blocking or of a streaming exchange) leaves the history of every   *)
(* other session as it is, in each store.                                  *)
C32_SessionsIsolated ==
    [][\A sid \in Sessions : HistoryChanges(sid) => OperatesOn(sid)]_vars

\* both sessions hold turns in both submit stores, an exchange of each route
\* is complete on one session and under way on the other
C32_Witness ==
    /\ Len(getConversationHistory(convStream, "s1")) = 2
    /\ Len(getConversationHistory(convStream, "default-session")) = 1
    /\ Len(getConversationHistory(convChat, "s1")) = 1
    /\ Len(getConversationHistory(convChat, "default-session")) = 2
    /\ "s1" \in cleared

---------------------------------------------------------------------------
(* C33: the submit paths share one conversation store: the assistant turns *)
(* that blocking exchanges appended to a session are part of the history   *)
(* that a later streaming request for the session sends upstream, and      *)
(* conversely.  Each route module has a Map of its own.                    *)
C33_OneStoreAcrossPaths ==
    [][/\ \A r \in DOMAIN reqs :
            StreamPosts(r) => Range(AssistantTurns(getConversationHistory(convChat, reqs'[r].sid)))
                                  \subseteq Range(reqs'[r].sent)
       /\ \A r \in DOMAIN chatReqs :
            ChatPosts(r) => Range(AssistantTurns(getConversationHistory(convStream, chatReqs'[r].sid)))
                                \subseteq Range(chatReqs'[r].sent)]_vars

\* C33, within one path: the assistant turns a route appended to a session
\* are part of what its own later request for the session sends
C33_OwnPathCarried ==
    [][/\ \A r \in DOMAIN reqs :
            StreamPosts(r) => Range(AssistantTurns(getConversationHistory(convStream, reqs'[r].sid)))
                                  \subseteq Range(reqs'[r].sent)
       /\ \A r \in DOMAIN chatReqs :
            ChatPosts(r) => Range(AssistantTurns(getConversationHistory(convChat, chatReqs'[r].sid)))
                                \subseteq Range(chatReqs'[r].sent)]_vars

C33_OwnPathCase ==
    /\ \E r \in DOMAIN reqs : reqs[r].phase = "awaiting" /\ Len(reqs[r].sent) = 3
    /\ \E r \in DOMAIN chatReqs : chatReqs[r].phase = "awaiting" /\ Len(chatReqs[r].sent) = 3

---------------------------------------------------------------------------
(* C34: context shaping never changes the store: the stored history of a   *)
(* session is what was appended to it, each message with its original      *)
(* text, after every request that shaped it; and a message sent upstream   *)
(* holds the context prefix at most once, however many requests have sent  *)
(* it before.                                                              *)
C34_ShapingLeavesStore ==
    /\ \A sid \in DOMAIN convStream :
          /\ convStream[sid] = LastN(logStream[sid], HistoryCap)
          /\ \A i \in DOMAIN convStream[sid] : Prefixes(convStream[sid][i]) = 0
    /\ \A sid \in DOMAIN convChat :
          /\ convChat[sid] = LastN(logChat[sid], HistoryCap)
          /\ \A i \in DOMAIN convChat[sid] : Prefixes(convChat[sid][i]) = 0
    /\ \A r \in DOMAIN reqs : \A i \in DOMAIN reqs[r].sent : Prefixes(reqs[r].sent[i]) <= 1
    /\ \A r \in DOMAIN chatReqs :
          \A i \in DOMAIN chatReqs[r].sent : Prefixes(chatReqs[r].sent[i]) <= 1

\* on each route a second request has sent, with the prefix, the user
\* messages of both exchanges before it
C34_Witness ==
    /\ \E r \in DOMAIN reqs :
          /\ reqs[r].phase = "awaiting"
          /\ Len(reqs[r].sent) = 5
          /\ Prefixes(reqs[r].sent[1]) = 1
          /\ Prefixes(reqs[r].sent[3]) = 1
    /\ \E r \in DOMAIN chatReqs :
          /\ chatReqs[r].phase = "awaiting"
          /\ Len(chatReqs[r].sent) = 5
          /\ Prefixes(chatReqs[r].sent[1]) = 1
          /\ Prefixes(chatReqs[r].sent[3]) = 1

---------------------------------------------------------------------------
(* C35: at every point of a streaming exchange the accumulated text is the *)
(* concatenation, in order, of the fragments of the deltas emitted so far. *)
(* The handlers add a fragment to the text before they enqueue its delta:  *)
(* when the enqueue throws, the text has the fragment and no delta has.    *)
C35_TextIsDeltasEmitted ==
    \A r \in DOMAIN reqs : reqs[r].fullResponse = ConcatDeltas(reqs[r].out)

\* C35, while the controller has been readable for every fragment read: no
\* terminal was emitted and the consumer did not cancel
C35_TextIsDeltasWhileOpen ==
    \A r \in DOMAIN reqs :
        (reqs[r].ctrl = "readable" \/ OpenUntilEnd(reqs[r]))
            => reqs[r].fullResponse = ConcatDeltas(reqs[r].out)

\* C35, second half: a line that is skipped leaves the accumulated text as
\* it is
C35_SkippedLineKeepsText ==
    [][\A r \in RelayReqs :
          (DataHandled(r) /\ \A i \in DOMAIN LinesOfChunk(r) : Skipped(LinesOfChunk(r)[i]))
              => reqs'[r].fullResponse = reqs[r].fullResponse]_vars

C35_SkippedCase ==
    \E r \in RelayReqs :
        /\ reqs[r].fullResponse # <<>>
        /\ "lineError" \in reqs[r].logged
        /\ reqs[r].ctrl = "readable"
        /\ reqs[r].fullResponse = ConcatDeltas(reqs[r].out)

---------------------------------------------------------------------------
(* C36: the history a request sends upstream ends with the user message    *)
(* that this request submitted, as submitted, whatever other requests for  *)
(* the session are in flight: no append of another request falls between   *)
(* the request's append and its read of the history.                       *)
C36_SentEndsWithOwnMessage ==
    /\ \A r \in DOMAIN reqs : reqs[r].posts = 1 => EndsWithOwn(reqs[r])
    /\ \A r \in DOMAIN chatReqs : chatReqs[r].posts = 1 => EndsWithOwn(chatReqs[r])

\* on each route two requests for one session are in flight together, each
\* with a message of its own
C36_Witness ==
    /\ \A r \in SessionReqs : reqs[r].phase = "awaiting" /\ reqs[r].sid = "s1"
    /\ \A r \in SessionReqs : chatReqs[r].phase = "awaiting" /\ chatReqs[r].sid = "s1"
    /\ reqs[1].message # reqs[2].message
    /\ chatReqs[1].message # chatReqs[2].message
    /\ Len(reqs[2].sent) = 2
    /\ Len(chatReqs[2].sent) = 2

---------------------------------------------------------------------------
(* C37: the history a request sends upstream begins with a message of the  *)
(* user, also once the truncation to 20 entries drops the oldest ones.     *)
(* The truncation drops one entry at a time: of a history of exchanges it  *)
(* drops the user message and keeps the reply that followed it.            *)
C37_SentBeginsWithUser ==
    /\ \A r \in DOMAIN reqs : reqs[r].posts = 1 => BeginsWithUser(reqs[r])
    /\ \A r \in DOMAIN chatReqs : chatReqs[r].posts = 1 => BeginsWithUser(chatReqs[r])

\* C37, before the truncation has dropped an entry
C37_BeginsWithUserBelowCap ==
    /\ \A r \in DOMAIN reqs :
          (reqs[r].posts = 1 /\ Len(reqs[r].sent) < HistoryCap) => BeginsWithUser(reqs[r])
    /\ \A r \in DOMAIN chatReqs :
          (chatReqs[r].posts = 1 /\ Len(chatReqs[r].sent) < HistoryCap)
              => BeginsWithUser(chatReqs[r])

C37_BelowCapCase ==
    /\ \E r \in DOMAIN reqs : reqs[r].posts = 1 /\ Len(reqs[r].sent) = 5
    /\ \E r \in DOMAIN chatReqs : chatReqs[r].posts = 1 /\ Len(chatReqs[r].sent) = 4

---------------------------------------------------------------------------
(* C38: when the upstream call of a blocking exchange fails (a rejection,  *)
(* a timeout, a transport failure) the store is left as it is: the user    *)
(* message appended for the exchange stays, no assistant message is added; *)
(* a request that follows it on the session sends two user messages in a   *)
(* row.                                                                    *)
C38_FailureKeepsUserTurn ==
    [][\A r \in DOMAIN chatReqs :
          /\ ChatFailsNow(r) =>
                /\ convChat' = convChat
                /\ logChat' = logChat
                /\ chatReqs'[r].assistantAt = 0
                /\ logChat'[chatReqs[r].sid][chatReqs[r].userAt]
                      = Message("user", FormattedContent(chatReqs[r].message))
          /\ (ChatPosts(r) /\ FollowsFailure(r)) => TwoUsersLast(chatReqs'[r].sent)]_vars

\* a request has timed out, the next request of the session has sent its
\* message after the one of the failed request, no reply between them
C38_Witness ==
    /\ chatReqs[1].phase = "failed"
    /\ chatReqs[1].failure = TimedOut
    /\ chatReqs[2].phase = "awaiting"
    /\ chatReqs[2].userAt = chatReqs[1].userAt + 1
    /\ TwoUsersLast(chatReqs[2].sent)
    /\ AssistantTurns(convChat["s1"]) = AssistantTurns(PrefillLog(HistoryCap - 1))

---------------------------------------------------------------------------
---------------------------------------------------------------------------
\* C40: when the relay has forwarded an Error frame during a streaming
\* exchange, the browser client ends the exchange in its error state: the
\* error message is the last of the visible messages.
C40_ErrorFrameShown ==
    (Sent /\ call.phase = "finished" /\ ErrorFrameRead)
        => /\ call.failed
           /\ call.messages[Len(call.messages)] = errorMessage

\* C40, what the client does with an Error frame: the throw is caught by the
\* catch around the line and logged; the exchange ends with the user message
\* and the reply made of the deltas read, which may be empty, and no error
\* message
C40_ErrorFrameSwallowed ==
    (Sent /\ call.phase = "finished" /\ ErrorFrameRead)
        => /\ ~call.failed
           /\ ~call.isLoading
           /\ "Error parsing stream data" \in call.logged
           /\ call.messages
                 = << VisibleMessage("user", <<Hello>>),
                      VisibleMessage("bot", ConcatDeltas(reqs[call.r].out)) >>

\* C40_ErrorFrameSwallowed, its case: the transport failed before any delta;
\* the exchange ends with an empty reply
C40_SwallowedCase ==
    /\ Sent /\ call.phase = "finished"
    /\ reqs[call.r].out = <<ErrorFrame(StreamError)>>
    /\ call.read = 1
    /\ call.messages[2] = VisibleMessage("bot", <<>>)

\* C40, for a response that is not ok (the JSON error responses of the
\* route): the client ends in its error state
C40_HttpErrorShown ==
    (Sent /\ call.phase = "finished" /\ reqs[call.r].status # 200)
        => /\ call.failed
           /\ call.messages[Len(call.messages)] = errorMessage

\* C40_HttpErrorShown, its case: the upstream call timed out, the route
\* answered 500
C40_HttpErrorCase ==
    /\ Sent /\ call.phase = "finished"
    /\ reqs[call.r].failure = TimedOut /\ reqs[call.r].status = 500
    /\ call.messages = << VisibleMessage("user", <<Hello>>),
                          VisibleMessage("bot", <<>>), errorMessage >>

====
